---- MODULE Spec2Model ----
(***************************************************************************)
(* color_sentence: the colour pipeline of core/engine.py (compute_color)   *)
(* with the helpers it calls (normalization, overrides, color_math), the   *)
(* name resolution against the remote lookup and the optional speech.      *)
(*                                                                         *)
(* Texts are sequences of one-character strings.  Python floats are IEEE   *)
(* binary64 values; they are modelled exactly, as signed multiples of      *)
(* 2^-84 held in 14-bit limbs (least significant first), and every float   *)
(* operation rounds its exact result to 53 significant bits, ties to even. *)
(***************************************************************************)
EXTENDS Integers, Sequences, FiniteSets, TLC

(* ------------------------------------------------------------------ *)
(* Naturals of arbitrary size: sequences of limbs, no leading zero.   *)
(* ------------------------------------------------------------------ *)
Base == 2^14
LimbBits == 2 * 7
Mantissa == 50 + 3

Limb(A, i) == IF i >= 1 /\ i <= Len(A) THEN A[i] ELSE 0

\* a function on 1..n, as a sequence
AsSeq(f, n) == SubSeq(f, 1, n)

\* the position of the highest non-zero limb, 0 for zero
Used(A) ==
    IF \E i \in 1..Len(A) : A[i] # 0
    THEN CHOOSE i \in 1..Len(A) : A[i] # 0 /\ \A k \in (i + 1)..Len(A) : A[k] = 0
    ELSE 0

Trim(A) == SubSeq(A, 1, Used(A))

Zeros(k) == AsSeq([i \in 1..k |-> 0], k)

ShiftAsSeq(A, k) == IF Len(A) = 0 THEN << >> ELSE Zeros(k) \o A
DropAsSeq(A, k) == SubSeq(A, k + 1, Len(A))

Longer(A, B) == IF Len(A) >= Len(B) THEN Len(A) ELSE Len(B)

\* a carry arrives at limb i: a limb below overflows and every limb between passes it on
CarryInto(A, B, i) ==
    \E j \in 1..(i - 1) :
        /\ Limb(A, j) + Limb(B, j) >= Base
        /\ \A k \in (j + 1)..(i - 1) : Limb(A, k) + Limb(B, k) >= Base - 1

AddLimb(A, B, i) ==
    (Limb(A, i) + Limb(B, i) + (IF CarryInto(A, B, i) THEN 1 ELSE 0)) % Base

BigAdd(A, B) ==
    IF Len(A) = 0 THEN B
    ELSE IF Len(B) = 0 THEN A
    ELSE Trim(AsSeq([i \in 1..(Longer(A, B) + 1) |-> AddLimb(A, B, i)], Longer(A, B) + 1))

BorrowInto(A, B, i) ==
    \E j \in 1..(i - 1) :
        /\ Limb(A, j) < Limb(B, j)
        /\ \A k \in (j + 1)..(i - 1) : Limb(A, k) <= Limb(B, k)

SubLimb(A, B, i) ==
    (A[i] - Limb(B, i) - (IF BorrowInto(A, B, i) THEN 1 ELSE 0) + Base) % Base

\* A - B for A >= B
BigSub(A, B) ==
    IF Len(B) = 0 THEN A
    ELSE Trim(AsSeq([i \in 1..Len(A) |-> SubLimb(A, B, i)], Len(A)))

CmpAt(A, B, i) == IF A[i] > B[i] THEN 1 ELSE -1

\* the order of two trimmed numbers: 1, 0 or -1
BigCmp(A, B) ==
    IF Len(A) > Len(B) THEN 1
    ELSE IF Len(A) < Len(B) THEN -1
    ELSE IF \A i \in 1..Len(A) : A[i] = B[i] THEN 0
    ELSE CmpAt(A, B, CHOOSE i \in 1..Len(A) :
                         A[i] # B[i] /\ \A k \in (i + 1)..Len(A) : A[k] = B[k])

\* A * k for 0 <= k < 2^14: the low halves of the limb products plus their
\* high halves one limb up
BigMulSmall(A, k) ==
    IF Len(A) = 0 \/ k = 0 THEN << >>
    ELSE
    BigAdd(AsSeq([i \in 1..Len(A) |-> (A[i] * k) % Base], Len(A)),
           AsSeq([i \in 1..(Len(A) + 1) |-> IF i = 1 THEN 0 ELSE (A[i - 1] * k) \div Base],
                 Len(A) + 1))

Term(A, B, k, i) ==
    IF i <= Len(A) /\ k + 1 - i >= 1 /\ k + 1 - i <= Len(B) THEN A[i] * B[k + 1 - i] ELSE 0

\* column k of the product of two numbers of at most 8 limbs
ColSum(A, B, k) ==
    ((Term(A, B, k, 1) + Term(A, B, k, 2)) + (Term(A, B, k, 3) + Term(A, B, k, 4)))
    + ((Term(A, B, k, 5) + Term(A, B, k, 6)) + (Term(A, B, k, 7) + Term(A, B, k, 8)))

Columns(A, B) == AsSeq([k \in 1..(Len(A) + Len(B)) |-> ColSum(A, B, k)], Len(A) + Len(B))

\* the number whose columns (each below Base^3) are cols
SumColumns(cols) ==
    BigAdd(BigAdd(AsSeq([k \in 1..Len(cols) |-> cols[k] % Base], Len(cols)),
                  AsSeq([k \in 1..(Len(cols) + 1) |->
                            IF k = 1 THEN 0 ELSE (cols[k - 1] \div Base) % Base],
                        Len(cols) + 1)),
           AsSeq([k \in 1..(Len(cols) + 2) |->
                     IF k <= 2 THEN 0 ELSE cols[k - 2] \div (Base * Base)],
                 Len(cols) + 2))

\* the number of zero limbs at the low end
LowZeros(A) ==
    IF \E i \in 1..Len(A) : A[i] # 0
    THEN (CHOOSE i \in 1..Len(A) : A[i] # 0 /\ \A k \in 1..(i - 1) : A[k] = 0) - 1
    ELSE Len(A)

MulStripped(A, B, za, zb) ==
    ShiftAsSeq(SumColumns(Columns(DropAsSeq(A, za), DropAsSeq(B, zb))), za + zb)

\* A * B: the low zero limbs are set aside and put back under the product
BigMul(A, B) ==
    IF Len(A) = 0 \/ Len(B) = 0 THEN << >>
    ELSE MulStripped(A, B, LowZeros(A), LowZeros(B))

SquareMod(x, d) == (x * x) % d

\* Base^k modulo d for 0 <= k < 16, by the binary digits of k
PowerMod(d, k, p1, p2, p4, p8) ==
    ((((IF k % 2 = 1 THEN p1 ELSE 1) * (IF (k \div 2) % 2 = 1 THEN p2 ELSE 1)) % d)
     * (((IF (k \div 4) % 2 = 1 THEN p4 ELSE 1) * (IF (k \div 8) % 2 = 1 THEN p8 ELSE 1)) % d)) % d

BasePower(d, k) ==
    PowerMod(d, k, Base % d, SquareMod(Base % d, d),
             SquareMod(SquareMod(Base % d, d), d),
             SquareMod(SquareMod(SquareMod(Base % d, d), d), d))

\* Base^0 .. Base^15 modulo d
BasePowers(d) == AsSeq([k \in 1..16 |-> BasePower(d, k - 1)], 16)

RECURSIVE SumOver(_, _, _)
SumOver(f, lo, hi) ==
    IF lo > hi THEN 0
    ELSE IF lo = hi THEN f[lo]
    ELSE SumOver(f, lo, (lo + hi) \div 2) + SumOver(f, (lo + hi) \div 2 + 1, hi)

\* the limbs of A from limb i up, modulo d
RestMod(A, d, powers, i) ==
    SumOver(AsSeq([j \in 1..Len(A) |-> IF j < i THEN 0 ELSE (A[j] * powers[j - i + 1]) % d],
                  Len(A)),
            i, Len(A)) % d

QuotientLimb(A, d, powers, i) == (RestMod(A, d, powers, i + 1) * Base + A[i]) \div d

DivideBy(A, d, powers) ==
    [q |-> Trim(AsSeq([i \in 1..Len(A) |-> QuotientLimb(A, d, powers, i)], Len(A))),
     r |-> RestMod(A, d, powers, 1)]

\* quotient and remainder of A (at most 16 limbs) by 0 < d < 2^14
BigDivSmall(A, d) == DivideBy(A, d, BasePowers(d))

\* the number of bits of a limb
BitsOf(x) == CHOOSE k \in 0..LimbBits : x < 2^k /\ (k = 0 \/ x >= 2^(k - 1))

BitLen(A) == IF Len(A) = 0 THEN 0 ELSE LimbBits * (Len(A) - 1) + BitsOf(A[Len(A)])

BitAt(A, p) == (Limb(A, p \div LimbBits + 1) \div 2^(p % LimbBits)) % 2

AnyBelow(A, p) ==
    \/ Limb(A, p \div LimbBits + 1) % 2^(p % LimbBits) # 0
    \/ \E i \in 1..Len(A) : i <= p \div LimbBits /\ A[i] # 0

ShiftBits(A, k) ==
    IF Len(A) = 0 THEN << >>
    ELSE ShiftAsSeq(BigMulSmall(A, 2^(k % LimbBits)), k \div LimbBits)

\* A with the bits below bit kb of limb kl cleared
Truncated(A, kl, kb) ==
    AsSeq([i \in 1..Len(A) |->
              IF i < kl THEN 0
              ELSE IF i = kl THEN A[i] - (A[i] % 2^kb)
              ELSE A[i]], Len(A))

\* A rounded at bit d, ties to even
RoundAt(A, sticky, d) ==
    IF BitAt(A, d - 1) = 1 /\ (sticky \/ AnyBelow(A, d - 1) \/ BitAt(A, d) = 1)
    THEN BigAdd(Truncated(A, d \div LimbBits + 1, d % LimbBits),
                ShiftAsSeq(<<2^(d % LimbBits)>>, d \div LimbBits))
    ELSE Truncated(A, d \div LimbBits + 1, d % LimbBits)

\* A rounded to 53 significant bits, ties to even; sticky: the exact value
\* lies strictly above A
Round53(A, sticky) ==
    IF BitLen(A) <= Mantissa THEN A ELSE RoundAt(A, sticky, BitLen(A) - Mantissa)

(* ------------------------------------------------------------------ *)
(* binary64 values: [neg, mag], mag in units of 2^-84 (6 limbs).      *)
(* ------------------------------------------------------------------ *)
FOne == <<0, 0, 0, 0, 0, 0, 1>>
FracLimbs == Len(FOne) - 1

MkF(neg, mag) == [neg |-> neg /\ Len(mag) > 0, mag |-> mag]

Abs(n) == IF n < 0 THEN -n ELSE n

\* float(n) for an int |n| < 2^28
FInt(n) == MkF(n < 0, ShiftAsSeq(Trim(<<Abs(n) % Base, Abs(n) \div Base>>), FracLimbs))

FNeg(a) == MkF(~a.neg, a.mag)

FAdd(a, b) ==
    IF a.neg = b.neg THEN MkF(a.neg, Round53(BigAdd(a.mag, b.mag), FALSE))
    ELSE IF BigCmp(a.mag, b.mag) >= 0
         THEN MkF(a.neg, Round53(BigSub(a.mag, b.mag), FALSE))
         ELSE MkF(b.neg, Round53(BigSub(b.mag, a.mag), FALSE))

FSub(a, b) == FAdd(a, FNeg(b))

FMul(a, b) ==
    MkF(a.neg # b.neg, DropAsSeq(Round53(BigMul(a.mag, b.mag), FALSE), FracLimbs))


RoundQuotient(neg, qr) ==
    IF Len(qr.q) = 0 THEN MkF(FALSE, << >>)
    ELSE MkF(neg, DropAsSeq(Round53(qr.q, qr.r # 0), FracLimbs))

\* a / float(d) for an int 0 < d < 2^14
FDivInt(a, d) == RoundQuotient(a.neg, BigDivSmall(ShiftAsSeq(a.mag, FracLimbs), d))

\* the largest q <= guess with q * Y <= N
RECURSIVE QuotientDigit(_, _, _)
QuotientDigit(N, Y, guess) ==
    IF BigCmp(BigMulSmall(Y, guess), N) > 0 THEN QuotientDigit(N, Y, guess - 1) ELSE guess


DigitAndRest(N, Y, q) == [q |-> q, r |-> BigMulSmall(BigSub(N, BigMulSmall(Y, q)), 2)]

GuessDigit(N, Y, guess) ==
    DigitAndRest(N, Y, QuotientDigit(N, Y, IF guess < Base THEN guess ELSE Base - 1))

DivScaled(N, Y) ==
    IF Len(N) = 0 THEN [q |-> 0, r |-> << >>]
    ELSE GuessDigit(N, Y, (Limb(N, Len(Y) + 1) * Base + Limb(N, Len(Y))) \div Y[Len(Y)])

\* one limb (14 bits) of the quotient of R by Y and twice what is left, for
\* R < 2 * Y and the top limb of Y at least Base / 2 (schoolbook long division:
\* the digit is guessed from the leading limbs and corrected downwards)
DivLimb(R, Y) == DivScaled(BigMulSmall(R, Base \div 2), Y)

\* n more limbs of the quotient before the limbs q (least significant first),
\* and what is left
RECURSIVE LongDivide(_, _, _, _)
RECURSIVE DivideOn(_, _, _, _)
LongDivide(R, Y, n, q) ==
    IF n = 0 THEN [q |-> Trim(q), r |-> R] ELSE DivideOn(DivLimb(R, Y), Y, n, q)

\* nothing left: the limbs still to come are zero
DivideOn(c, Y, n, q) ==
    IF Len(c.r) = 0 THEN [q |-> Trim(Zeros(n - 1) \o <<c.q>> \o q), r |-> << >>]
    ELSE LongDivide(c.r, Y, n - 1, <<c.q>> \o q)

\* the limbs of a quotient of Mantissa bits and three more
QuotientLimbs == (Mantissa + 3) \div LimbBits

\* the shift that puts bit top at the top of a limb
AlignUp(top) == (LimbBits - (top % LimbBits)) % LimbBits

RoundDivided(neg, qr, sh) ==
    IF Len(qr.q) = 0 THEN MkF(FALSE, << >>)
    ELSE MkF(neg, ShiftBits(Round53(qr.q, Len(qr.r) > 0), sh))

FDivAligned(a, b, la, lb, top) ==
    RoundDivided(a.neg # b.neg,
                 LongDivide(ShiftBits(a.mag, top - la + AlignUp(top)),
                            ShiftBits(b.mag, top - lb + AlignUp(top)),
                            QuotientLimbs, << >>),
                 LimbBits * FracLimbs + la - lb - (QuotientLimbs * LimbBits - 1))

\* a / b for b # 0: 56 quotient bits by long division, then one rounding
FDiv(a, b) ==
    IF Len(a.mag) = 0 THEN MkF(FALSE, << >>)
    ELSE FDivAligned(a, b, BitLen(a.mag), BitLen(b.mag),
                     IF BitLen(a.mag) > BitLen(b.mag) THEN BitLen(a.mag) ELSE BitLen(b.mag))

FCmp(a, b) ==
    IF a.neg /\ ~b.neg THEN -1
    ELSE IF ~a.neg /\ b.neg THEN 1
    ELSE IF a.neg THEN BigCmp(b.mag, a.mag)
    ELSE BigCmp(a.mag, b.mag)

FLt(a, b) == FCmp(a, b) < 0
FGt(a, b) == FCmp(a, b) > 0
FLe(a, b) == FCmp(a, b) <= 0
FGe(a, b) == FCmp(a, b) >= 0

\* int(round(a)): Python rounds a float to the nearest integer, ties to even
PyRound(a) ==
    LET ip   == Limb(a.mag, FracLimbs + 1) + Base * Limb(a.mag, FracLimbs + 2)
        top  == Limb(a.mag, FracLimbs)
        low  == \E i \in 1..Len(a.mag) : i < FracLimbs /\ a.mag[i] # 0
        half == Base \div 2
        r    == IF top > half \/ (top = half /\ low) THEN ip + 1
                ELSE IF top = half /\ ip % 2 = 1 THEN ip + 1
                ELSE ip
    IN  IF a.neg THEN -r ELSE r

(* ------------------------------------------------------------------ *)
(* Characters and text (core/normalization.py).                       *)
(* ------------------------------------------------------------------ *)
LowerCase == <<"a", "b", "c", "d", "e", "f", "g", "h", "i", "j", "k", "l", "m",
               "n", "o", "p", "q", "r", "s", "t", "u", "v", "w", "x", "y", "z">>
UpperCase == <<"A", "B", "C", "D", "E", "F", "G", "H", "I", "J", "K", "L", "M",
               "N", "O", "P", "Q", "R", "S", "T", "U", "V", "W", "X", "Y", "Z">>
Digits == {"0", "1", "2", "3", "4", "5", "6", "7", "8", "9"}
\* the German letters the mapping of transliterate_de knows, by name
Umlauts == {"a_uml", "o_uml", "u_uml", "A_uml", "O_uml", "U_uml", "eszett"}
Whitespace == {" ", "\t", "\n"}

Range(f) == {f[i] : i \in DOMAIN f}

LowerOf == [c \in Range(UpperCase) |-> LowerCase[CHOOSE i \in 1..Len(UpperCase) : UpperCase[i] = c]]

\* str.lower() of one character
Lower(c) == IF c \in DOMAIN LowerOf THEN LowerOf[c] ELSE c

AsciiLetters == Range(LowerCase) \cup Range(UpperCase)

\* ASCII_LETTERS_PATTERN [A-Za-z]
IsAsciiLetter(c) == c \in AsciiLetters

WordChars == AsciiLetters \cup Digits \cup {"_"} \cup Umlauts

\* the regular expression class \w on str patterns
IsWordChar(c) == c \in WordChars

Replacement(ch) ==
    CASE ch = "a_uml"  -> <<"a", "e">>
      [] ch = "o_uml"  -> <<"o", "e">>
      [] ch = "u_uml"  -> <<"u", "e">>
      [] ch = "A_uml"  -> <<"A", "e">>
      [] ch = "O_uml"  -> <<"O", "e">>
      [] ch = "U_uml"  -> <<"U", "e">>
      [] ch = "eszett" -> <<"s", "s">>
      [] OTHER         -> <<ch>>

\* the replacements of the characters lo..hi of the text, joined
RECURSIVE Transliterated(_, _, _)
Transliterated(text, lo, hi) ==
    IF lo > hi THEN << >>
    ELSE IF lo = hi THEN Replacement(text[lo])
    ELSE Transliterated(text, lo, (lo + hi) \div 2)
         \o Transliterated(text, (lo + hi) \div 2 + 1, hi)

IsWordOrSpace(c) == IsWordChar(c) \/ c \in Whitespace

\* a transliteration that also drops punctuation
WordsOnly(text) == SelectSeq(Transliterated(text, 1, Len(text)), IsWordOrSpace)

transliterate_de(text) == Transliterated(text, 1, Len(text))

visible_len(text) == Cardinality({i \in 1..Len(text) : text[i] \notin Whitespace})

letters_only(text) == SelectSeq(text, IsAsciiLetter)

CountIn(letters, set) == Cardinality({i \in 1..Len(letters) : letters[i] \in set})

(* ------------------------------------------------------------------ *)
(* config/config.py, config/overrides_config.py                       *)
(* ------------------------------------------------------------------ *)
LENGTH_FLOOR ==
    [short_visible_max |-> 6, long_visible_min |-> 30,
     bright_at_short |-> 200, bright_at_long |-> 80, linear_step |-> 5]

\* bright_per_score 0.15 and sat_per_score 0.10 are the literals 15/100, 10/100
PUNCT ==
    [weight_exclamation |-> 2, weight_question |-> -1, end_bonus |-> 1,
     score_min |-> -3, score_max |-> 3,
     bright_per_score |-> FDivInt(FInt(15), 100),
     sat_per_score |-> FDivInt(FInt(10), 100)]

ANCHOR == [index_r |-> 17, index_g |-> 6, index_b |-> 1]

OVERRIDE_COLOR_RGB(k) ==
    CASE k = "rot"     -> <<255, 0, 0>>
      [] k = "gruen"   -> <<0, 255, 0>>
      [] k = "blau"    -> <<0, 0, 255>>
      [] k = "gelb"    -> <<255, 255, 0>>
      [] k = "orange"  -> <<255, 165, 0>>
      [] k = "lila"    -> <<180, 0, 255>>
      [] k = "violett" -> <<148, 0, 211>>
      [] k = "magenta" -> <<255, 0, 255>>
      [] k = "pink"    -> <<255, 105, 180>>
      [] k = "tuerkis" -> <<64, 224, 208>>
      [] k = "cyan"    -> <<0, 255, 255>>
      [] k = "braun"   -> <<150, 75, 0>>
      [] k = "grau"    -> <<128, 128, 128>>
      [] k = "weiss"   -> <<255, 255, 255>>
      [] k = "schwarz" -> <<0, 0, 0>>
      [] k = "gold"    -> <<212, 175, 55>>
      [] k = "silber"  -> <<192, 192, 192>>
      [] k = "bronze"  -> <<205, 127, 50>>
      [] k = "kupfer"  -> <<184, 115, 51>>
      [] k = "messing" -> <<181, 166, 66>>
      [] k = "beige"   -> <<245, 245, 220>>
      [] k = "oliv"    -> <<128, 128, 0>>
      [] k = "mint"    -> <<170, 255, 195>>
      [] k = "khaki"   -> <<195, 176, 145>>

\* one entry per (colour key, stem), in the order _compile_color_patterns builds
OVERRIDE_COLOR_STEMS ==
  <<
    [key |-> "rot", stem |-> <<"r", "o", "t">>],
    [key |-> "rot", stem |-> <<"r", "o", "e", "t">>],
    [key |-> "gruen", stem |-> <<"g", "r", "u", "e", "n">>],
    [key |-> "blau", stem |-> <<"b", "l", "a", "u">>],
    [key |-> "blau", stem |-> <<"b", "l", "a", "e", "u">>],
    [key |-> "gelb", stem |-> <<"g", "e", "l", "b">>],
    [key |-> "braun", stem |-> <<"b", "r", "a", "u", "n">>],
    [key |-> "braun", stem |-> <<"b", "r", "a", "e", "u", "n">>],
    [key |-> "orange", stem |-> <<"o", "r", "a", "n", "g", "e">>],
    [key |-> "lila", stem |-> <<"l", "i", "l", "a">>],
    [key |-> "violett", stem |-> <<"v", "i", "o", "l", "e", "t", "t">>],
    [key |-> "magenta", stem |-> <<"m", "a", "g", "e", "n", "t", "a">>],
    [key |-> "pink", stem |-> <<"p", "i", "n", "k">>],
    [key |-> "tuerkis", stem |-> <<"t", "u", "e", "r", "k", "i", "s">>],
    [key |-> "cyan", stem |-> <<"c", "y", "a", "n">>],
    [key |-> "grau", stem |-> <<"g", "r", "a", "u">>],
    [key |-> "weiss", stem |-> <<"w", "e", "i", "s", "s">>],
    [key |-> "schwarz", stem |-> <<"s", "c", "h", "w", "a", "r", "z">>],
    [key |-> "gold", stem |-> <<"g", "o", "l", "d">>],
    [key |-> "silber", stem |-> <<"s", "i", "l", "b", "e", "r">>],
    [key |-> "silber", stem |-> <<"s", "i", "l", "b", "e", "r", "n">>],
    [key |-> "bronze", stem |-> <<"b", "r", "o", "n", "z", "e">>],
    [key |-> "bronze", stem |-> <<"b", "r", "o", "n", "z", "e", "n">>],
    [key |-> "kupfer", stem |-> <<"k", "u", "p", "f", "e", "r">>],
    [key |-> "messing", stem |-> <<"m", "e", "s", "s", "i", "n", "g">>],
    [key |-> "beige", stem |-> <<"b", "e", "i", "g", "e">>],
    [key |-> "oliv", stem |-> <<"o", "l", "i", "v">>],
    [key |-> "mint", stem |-> <<"m", "i", "n", "t">>],
    [key |-> "khaki", stem |-> <<"k", "h", "a", "k", "i">>]
  >>

\* the suffix alternatives of the pattern, in the order the alternation tries them
SuffixAlternatives ==
  <<
    [name |-> "farben", chars |-> <<"f", "a", "r", "b", "e", "n">>],
    [name |-> "farbig", chars |-> <<"f", "a", "r", "b", "i", "g">>],
    [name |-> "stichig", chars |-> <<"s", "t", "i", "c", "h", "i", "g">>],
    [name |-> "lich", chars |-> <<"l", "i", "c", "h">>]
  >>

BASE_WORD_SUFFIX_KEY == ""

\* the weights are the float literals 0.70, 0.60, 0.60, 0.50, 0.35
OVERRIDE_SUFFIX_WEIGHTS ==
    [suffix \in {"", "farben", "farbig", "stichig", "lich"} |->
        CASE suffix = ""        -> FDivInt(FInt(70), 100)
          [] suffix = "farben"  -> FDivInt(FInt(60), 100)
          [] suffix = "farbig"  -> FDivInt(FInt(60), 100)
          [] suffix = "stichig" -> FDivInt(FInt(50), 100)
          [] suffix = "lich"    -> FDivInt(FInt(35), 100)]

\* every match weighs as the bare word, whatever its suffix
BareWeightFor(suffix) == OVERRIDE_SUFFIX_WEIGHTS[BASE_WORD_SUFFIX_KEY]

\* OVERRIDE_SUFFIX_WEIGHTS.get(suffix, OVERRIDE_SUFFIX_WEIGHTS[BASE_WORD_SUFFIX_KEY])
WeightForMatch(suffix) ==
    IF suffix \in DOMAIN OVERRIDE_SUFFIX_WEIGHTS THEN OVERRIDE_SUFFIX_WEIGHTS[suffix]
    ELSE OVERRIDE_SUFFIX_WEIGHTS[BASE_WORD_SUFFIX_KEY]

(* ------------------------------------------------------------------ *)
(* core/color_math.py                                                 *)
(* ------------------------------------------------------------------ *)
MIN_BYTE == 0
MAX_BYTE == 255

\* clamp_byte without the two comparisons
Unclamped(value) == value

clamp_byte(value) ==
    IF value < MIN_BYTE THEN MIN_BYTE
    ELSE IF value > MAX_BYTE THEN MAX_BYTE
    ELSE value

Max3(rgb) ==
    IF rgb[1] >= rgb[2] /\ rgb[1] >= rgb[3] THEN rgb[1]
    ELSE IF rgb[2] >= rgb[3] THEN rgb[2]
    ELSE rgb[3]

Min3(rgb) ==
    IF rgb[1] <= rgb[2] /\ rgb[1] <= rgb[3] THEN rgb[1]
    ELSE IF rgb[2] <= rgb[3] THEN rgb[2]
    ELSE rgb[3]

apply_saturation(rgb, saturation_multiplier) ==
    LET adjusted(mean_value) ==
            LET adjust(channel) ==
                    clamp_byte(PyRound(FAdd(mean_value,
                        FMul(FSub(FInt(channel), mean_value), saturation_multiplier))))
            IN  <<adjust(rgb[1]), adjust(rgb[2]), adjust(rgb[3])>>
    IN  adjusted(FDivInt(FInt(rgb[1] + rgb[2] + rgb[3]), 3))

apply_brightness(rgb, brightness_multiplier) ==
    LET adjust(channel) == clamp_byte(PyRound(FMul(FInt(channel), brightness_multiplier)))
    IN  <<adjust(rgb[1]), adjust(rgb[2]), adjust(rgb[3])>>

(* ------------------------------------------------------------------ *)
(* core/overrides.py                                                  *)
(* ------------------------------------------------------------------ *)
\* the text holds the characters s (lower case) from position i on, ignoring case
StartsWithAt(text, s, i) ==
    /\ i + Len(s) - 1 <= Len(text)
    /\ \A k \in 1..Len(s) : Lower(text[i + k - 1]) = s[k]

IsWordAt(text, i) == i >= 1 /\ i <= Len(text) /\ IsWordChar(text[i])

\* \b before position i
WordBoundaryAt(text, i) == IsWordAt(text, i - 1) # IsWordAt(text, i)

\* group 1, lower-cased: the first alternative that matches at i, else no group
SuffixAt(text, i) ==
    IF \E n \in 1..Len(SuffixAlternatives) : StartsWithAt(text, SuffixAlternatives[n].chars, i)
    THEN SuffixAlternatives[CHOOSE n \in 1..Len(SuffixAlternatives) :
             /\ StartsWithAt(text, SuffixAlternatives[n].chars, i)
             /\ \A m \in 1..(n - 1) : ~StartsWithAt(text, SuffixAlternatives[m].chars, i)]
    ELSE [name |-> BASE_WORD_SUFFIX_KEY, chars |-> << >>]

\* where \w* stops when it starts at i
WordEnd(text, i) ==
    CHOOSE j \in i..(Len(text) + 1) : ~IsWordAt(text, j) /\ \A k \in i..(j - 1) : IsWordAt(text, k)

\* \b<stem> matches at position i
StemAt(text, stem, i) == StartsWithAt(text, stem, i) /\ WordBoundaryAt(text, i)

\* pattern.finditer(text_trans) for \b<stem>(farben|farbig|stichig|lich)?\w* :
\* the suffix keys of the matches; the scan goes to the first position from i
\* on where the pattern matches and on from the end of that match
RECURSIVE FindIter(_, _, _)
RECURSIVE MatchAt(_, _, _)
RECURSIVE MatchWith(_, _, _, _)
FindIter(text, stem, i) ==
    IF \E j \in i..Len(text) : StemAt(text, stem, j)
    THEN MatchAt(text, stem, CHOOSE j \in i..Len(text) :
                                 StemAt(text, stem, j) /\ \A k \in i..(j - 1) : ~StemAt(text, stem, k))
    ELSE << >>

MatchAt(text, stem, j) == MatchWith(text, stem, j, SuffixAt(text, j + Len(stem)))

\* finditer that stops after its first match
MatchOnce(text, stem, j, suf) == <<suf.name>>

MatchWith(text, stem, j, suf) ==
    <<suf.name>> \o FindIter(text, stem, WordEnd(text, j + Len(stem) + Len(suf.chars)))

\* the matches of one pattern with its colour key
Keyed(color_key, suffixes) ==
    AsSeq([k \in 1..Len(suffixes) |-> [color_key |-> color_key, suffix |-> suffixes[k]]],
          Len(suffixes))

\* the matches the two loops of find_override_and_weight visit, in their
\* order, for the patterns lo..hi of _COLOR_PATTERNS
RECURSIVE Visited(_, _, _)
Visited(text_trans, lo, hi) ==
    IF lo = hi
    THEN Keyed(OVERRIDE_COLOR_STEMS[lo].key, FindIter(text_trans, OVERRIDE_COLOR_STEMS[lo].stem, 1))
    ELSE Visited(text_trans, lo, (lo + hi) \div 2) \o Visited(text_trans, (lo + hi) \div 2 + 1, hi)

\* the body of the inner loop
AddMatch(acc, match) ==
    [sum_red     |-> FAdd(acc.sum_red, FInt(OVERRIDE_COLOR_RGB(match.color_key)[1])),
     sum_green   |-> FAdd(acc.sum_green, FInt(OVERRIDE_COLOR_RGB(match.color_key)[2])),
     sum_blue    |-> FAdd(acc.sum_blue, FInt(OVERRIDE_COLOR_RGB(match.color_key)[3])),
     sum_weight  |-> FAdd(acc.sum_weight, WeightForMatch(match.suffix)),
     match_count |-> acc.match_count + 1]

\* the sums after the first n matches
RECURSIVE Accumulated(_, _)
Accumulated(matches, n) ==
    IF n = 0
    THEN [sum_red |-> FInt(0), sum_green |-> FInt(0), sum_blue |-> FInt(0),
          sum_weight |-> FInt(0), match_count |-> 0]
    ELSE AddMatch(Accumulated(matches, n - 1), matches[n])

\* the average weight as it is, without the two comparisons
AverageWeight(avg_weight, base_weight) == avg_weight

ClampWeight(avg_weight, base_weight) ==
    IF FLt(avg_weight, FInt(0)) THEN FInt(0)
    ELSE IF FGt(avg_weight, base_weight) THEN base_weight
    ELSE avg_weight

\* the part of find_override_and_weight after the loops
Averaged(acc) ==
    IF acc.match_count = 0
    THEN [found |-> FALSE, rgb |-> <<0, 0, 0>>, weight |-> FInt(0), match_count |-> 0]
    ELSE [found  |-> TRUE,
          rgb    |-> <<PyRound(FDivInt(acc.sum_red, acc.match_count)),
                       PyRound(FDivInt(acc.sum_green, acc.match_count)),
                       PyRound(FDivInt(acc.sum_blue, acc.match_count))>>,
          weight |-> ClampWeight(FDivInt(acc.sum_weight, acc.match_count),
                                 OVERRIDE_SUFFIX_WEIGHTS[BASE_WORD_SUFFIX_KEY]),
          match_count |-> acc.match_count]

AverageOf(matches) == Averaged(Accumulated(matches, Len(matches)))

\* found: whether the result is a pair rather than None
find_override_and_weight(text_trans) ==
    AverageOf(Visited(text_trans, 1, Len(OVERRIDE_COLOR_STEMS)))

(* ------------------------------------------------------------------ *)
(* core/engine.py: the stages of compute_color                        *)
(* ------------------------------------------------------------------ *)
clamped(value) ==
    IF FLt(value, FInt(0)) THEN FInt(0)
    ELSE IF FGt(value, FInt(1)) THEN FInt(1)
    ELSE value

_to_byte_0_1(value) == PyRound(FMul(clamped(value), FInt(255)))

\* the target whose interpolation adds the step
RisingTarget(visible_count) ==
    IF visible_count <= LENGTH_FLOOR.short_visible_max THEN LENGTH_FLOOR.bright_at_short
    ELSE IF visible_count >= LENGTH_FLOOR.long_visible_min THEN LENGTH_FLOOR.bright_at_long
    ELSE LENGTH_FLOOR.bright_at_short
         + LENGTH_FLOOR.linear_step * (visible_count - LENGTH_FLOOR.short_visible_max)

_length_floor_target(visible_count) ==
    IF visible_count <= LENGTH_FLOOR.short_visible_max THEN LENGTH_FLOOR.bright_at_short
    ELSE IF visible_count >= LENGTH_FLOOR.long_visible_min THEN LENGTH_FLOOR.bright_at_long
    ELSE LENGTH_FLOOR.bright_at_short
         - LENGTH_FLOOR.linear_step * (visible_count - LENGTH_FLOOR.short_visible_max)

Min2(a, b) == IF a <= b THEN a ELSE b

\* the three channels times factor, capped at 255
ScaledBy(rgb, factor) ==
    <<Min2(255, PyRound(FMul(FInt(rgb[1]), factor))),
      Min2(255, PyRound(FMul(FInt(rgb[2]), factor))),
      Min2(255, PyRound(FMul(FInt(rgb[3]), factor)))>>

\* the scaling without the test that the peak is below the target
ScaledTo(rgb, current_max, target_max) ==
    IF current_max <= 0 THEN rgb
    ELSE ScaledBy(rgb, FDivInt(FInt(target_max), current_max))

RaisedTo(rgb, current_max, target_max) ==
    IF current_max <= 0 \/ current_max >= target_max THEN rgb
    ELSE ScaledBy(rgb, FDivInt(FInt(target_max), current_max))

_apply_length_floor(rgb, base_count, cfg) ==
    IF ~cfg.apply_length_floor \/ base_count <= 0 THEN rgb
    ELSE RaisedTo(rgb, Max3(rgb), _length_floor_target(base_count))

\* the sRGB weights 0.2126, 0.7152, 0.0722
LumaWeights ==
    <<FDivInt(FInt(2126), 10000), FDivInt(FInt(7152), 10000), FDivInt(FInt(722), 10000)>>

\* 0.2126 * red + 0.7152 * green + 0.0722 * blue, a float
_luminance_255(rgb) ==
    FAdd(FAdd(FMul(LumaWeights[1], FInt(rgb[1])),
              FMul(LumaWeights[2], FInt(rgb[2]))),
         FMul(LumaWeights[3], FInt(rgb[3])))

\* str.rstrip()
rstrip(text) ==
    IF \E i \in 1..Len(text) : text[i] \notin Whitespace
    THEN SubSeq(text, 1, CHOOSE i \in 1..Len(text) :
                             text[i] \notin Whitespace
                             /\ \A k \in (i + 1)..Len(text) : text[k] \in Whitespace)
    ELSE << >>

EndsWith(text, c) == Len(text) > 0 /\ text[Len(text)] = c

WithEndBonus(score, tail) ==
    IF EndsWith(tail, "!") THEN score + PUNCT.end_bonus
    ELSE IF EndsWith(tail, "?") THEN score - PUNCT.end_bonus
    ELSE score

\* the score without the two comparisons
UnclampedScore(score) == score

ClampScore(score) ==
    IF score < PUNCT.score_min THEN PUNCT.score_min
    ELSE IF score > PUNCT.score_max THEN PUNCT.score_max
    ELSE score

\* score, as _punctuation_multipliers leaves it
PunctuationScore(original_text) ==
    ClampScore(WithEndBonus(PUNCT.weight_exclamation * CountIn(original_text, {"!"})
                            + PUNCT.weight_question * CountIn(original_text, {"?"}),
                            rstrip(original_text)))

MultipliersFor(score) ==
    <<FAdd(FInt(1), FMul(PUNCT.bright_per_score, FInt(score))),
      FAdd(FInt(1), FMul(PUNCT.sat_per_score, FInt(score)))>>

\* <<brightness_multiplier, saturation_multiplier>>
_punctuation_multipliers(original_text) == MultipliersFor(PunctuationScore(original_text))

\* the base count that ignores the denominator policy
LetterCount(text_trans, letters, denominator) == Len(letters)

BaseCount(text_trans, letters, denominator) ==
    IF denominator = "visible" THEN visible_len(text_trans)
    ELSE IF denominator = "letters" THEN Len(letters)
    ELSE IF CountIn(letters, {"r", "R", "g", "G", "b", "B"}) >= 1
         THEN CountIn(letters, {"r", "R", "g", "G", "b", "B"})
         ELSE 1

Channel(letters, set, base_count) ==
    _to_byte_0_1(IF base_count > 0
                 THEN FDivInt(FInt(CountIn(letters, set)), base_count)
                 ELSE FInt(0))

FreqOf(letters, base_count) ==
    [rgb |-> <<Channel(letters, {"r", "R"}, base_count),
               Channel(letters, {"g", "G"}, base_count),
               Channel(letters, {"b", "B"}, base_count)>>,
     base_count |-> base_count]

_compute_rgb_freq(text_trans, denominator) ==
    FreqOf(letters_only(text_trans),
           BaseCount(text_trans, letters_only(text_trans), denominator))

\* str.lower() of one character, as a string: the two characters that are no
\* ASCII letters and whose lower case starts with an ASCII letter are the
\* Kelvin sign (U+212A), which gives k, and the capital I with a dot above
\* (U+0130), which gives i followed by a combining dot
str_lower(c) ==
    IF c = "I_dot" THEN <<"i", "dot_above">>
    ELSE IF c = "kelvin" THEN <<"k">>
    ELSE <<Lower(c)>>

\* "a" <= lower <= "z" on strings
InLetterRange(lower) ==
    \/ Len(lower) = 1 /\ lower[1] \in Range(LowerCase)
    \/ Len(lower) > 1 /\ lower[1] \in Range(LowerCase) \ {"z"}

\* ord(lower) of a string of several characters raises TypeError
LetterIndexRaises(letter) ==
    InLetterRange(str_lower(letter)) /\ Len(str_lower(letter)) # 1

\* 0..25 for a letter, -1 for None
_letter_index(letter) ==
    IF InLetterRange(str_lower(letter)) /\ Len(str_lower(letter)) = 1
    THEN (CHOOSE i \in 1..26 : LowerCase[i] = str_lower(letter)[1]) - 1
    ELSE -1

AnchorIndex(key) ==
    CASE key = "R" -> ANCHOR.index_r
      [] key = "G" -> ANCHOR.index_g
      [] key = "B" -> ANCHOR.index_b

\* the distance along the alphabet, without going round the circle
LinearDistance(alpha_index, key) ==
    IF alpha_index >= AnchorIndex(key) THEN alpha_index - AnchorIndex(key)
    ELSE AnchorIndex(key) - alpha_index

\* distances[key]
AnchorDistance(alpha_index, key) ==
    Min2((alpha_index - AnchorIndex(key)) % 26, (AnchorIndex(key) - alpha_index) % 26)

\* the set of winning keys
_nearest_anchor_keys(alpha_index) ==
    {key \in {"R", "G", "B"} :
        \A other \in {"R", "G", "B"} :
            AnchorDistance(alpha_index, key) <= AnchorDistance(alpha_index, other)}

AddShare(counts, winners, share) ==
    [R |-> IF "R" \in winners THEN FAdd(counts.R, share) ELSE counts.R,
     G |-> IF "G" \in winners THEN FAdd(counts.G, share) ELSE counts.G,
     B |-> IF "B" \in winners THEN FAdd(counts.B, share) ELSE counts.B]

\* the body of the loop of _compute_rgb_anchor
CountLetter(counts, idx_opt) ==
    IF idx_opt = -1 THEN counts
    ELSE AddShare(counts, _nearest_anchor_keys(idx_opt),
                  FDivInt(FInt(1), Cardinality(_nearest_anchor_keys(idx_opt))))

\* counts of two stretches of the text together; every share is 1.0 or 0.5
\* (at most two anchors tie), so the float sums are exact in any order
SumCounts(left, right) ==
    [R |-> FAdd(left.R, right.R), G |-> FAdd(left.G, right.G), B |-> FAdd(left.B, right.B)]

NoCounts == [R |-> FInt(0), G |-> FInt(0), B |-> FInt(0)]

\* counts after the characters lo..hi of the text
RECURSIVE AnchorCounts(_, _, _)
AnchorCounts(text_trans, lo, hi) ==
    IF lo > hi THEN NoCounts
    ELSE IF lo = hi THEN CountLetter(NoCounts, _letter_index(text_trans[lo]))
    ELSE SumCounts(AnchorCounts(text_trans, lo, (lo + hi) \div 2),
                   AnchorCounts(text_trans, (lo + hi) \div 2 + 1, hi))

FMax(a, b) == IF FGe(a, b) THEN a ELSE b

ScaledCounts(counts, scale) ==
    <<PyRound(FMul(counts.R, scale)), PyRound(FMul(counts.G, scale)),
      PyRound(FMul(counts.B, scale))>>

ScaledToMaximum(counts, maximum) ==
    IF maximum = FInt(0) THEN <<0, 0, 0>>
    ELSE ScaledCounts(counts, FDiv(FInt(255), maximum))

AnchorRgb(counts) == ScaledToMaximum(counts, FMax(FMax(counts.R, counts.G), counts.B))

_compute_rgb_anchor(text_trans) == AnchorRgb(AnchorCounts(text_trans, 1, Len(text_trans)))

\* the loop of _compute_rgb_anchor meets a character on which _letter_index raises
AnchorRaises(text_trans) == \E i \in 1..Len(text_trans) : LetterIndexRaises(text_trans[i])

Blended(c, o, weight) ==
    PyRound(FAdd(FMul(FSub(FInt(1), weight), FInt(c)), FMul(weight, FInt(o))))

BlendFound(rgb, found) ==
    IF ~found.found THEN rgb
    ELSE <<Blended(rgb[1], found.rgb[1], found.weight),
           Blended(rgb[2], found.rgb[2], found.weight),
           Blended(rgb[3], found.rgb[3], found.weight)>>

\* _blend_override that ignores what was found
Unblended(rgb, text_trans) == rgb

_blend_override(rgb, text_trans) == BlendFound(rgb, find_override_and_weight(text_trans))

\* the two corrections that bring the luminance back to the baseline
Corrected(after_bright, base_luminance, brightness_multiplier, new_luminance) ==
    IF /\ FLt(brightness_multiplier, FInt(1))
       /\ FGt(new_luminance, base_luminance)
       /\ FGt(new_luminance, FInt(0))
    THEN apply_brightness(after_bright, FDiv(base_luminance, new_luminance))
    ELSE IF /\ FGt(brightness_multiplier, FInt(1))
            /\ FGt(base_luminance, new_luminance)
            /\ FGt(new_luminance, FInt(0))
         THEN apply_brightness(after_bright, FDiv(base_luminance, new_luminance))
         ELSE after_bright

AfterBright(after_bright, base_luminance, brightness_multiplier) ==
    Corrected(after_bright, base_luminance, brightness_multiplier, _luminance_255(after_bright))

Modified(rgb, multipliers) ==
    AfterBright(apply_brightness(apply_saturation(rgb, multipliers[2]), multipliers[1]),
                _luminance_255(rgb), multipliers[1])

_apply_punctuation(rgb, original_text, cfg) ==
    IF ~cfg.punctuation_mods THEN rgb
    ELSE Modified(rgb, _punctuation_multipliers(original_text))

(* ------------------------------------------------------------------ *)
(* core/color_math.py: rgb_to_hex and approx_color_name               *)
(* ------------------------------------------------------------------ *)
UpperHexDigits == <<"0", "1", "2", "3", "4", "5", "6", "7",
                    "8", "9", "A", "B", "C", "D", "E", "F">>

\* the digits of n >= 0 in base 16, upper case, most significant first
RECURSIVE HexDigitsOf(_)
HexDigitsOf(n) ==
    IF n < 16 THEN <<UpperHexDigits[n + 1]>>
    ELSE HexDigitsOf(n \div 16) \o <<UpperHexDigits[(n % 16) + 1]>>

\* the format specification X: no padding
FormatX(n) == HexDigitsOf(n)

\* the format specification 02X: sign, then digits, zero-padded to width 2
Format02X(n) ==
    IF n < 0 THEN <<"-">> \o HexDigitsOf(-n)
    ELSE IF n < 16 THEN <<"0">> \o HexDigitsOf(n)
    ELSE HexDigitsOf(n)

rgb_to_hex(red, green, blue) ==
    <<"#">> \o Format02X(red) \o Format02X(green) \o Format02X(blue)

HSV_BLACK_VALUE_MAX == FDivInt(FInt(12), 100)
HSV_WHITE_VALUE_MIN == FDivInt(FInt(92), 100)
HSV_WHITE_SAT_MAX == FDivInt(FInt(15), 100)
HSV_GRAY_SAT_MAX == FDivInt(FInt(12), 100)
DEGREES_FULL_CIRCLE == FInt(360)

HUE_BANDS ==
  <<
    [start_inclusive |-> 0, end_exclusive |-> 12, name |-> <<"r", "e", "d">>],
    [start_inclusive |-> 12, end_exclusive |-> 35, name |-> <<"o", "r", "a", "n", "g", "e">>],
    [start_inclusive |-> 35, end_exclusive |-> 55, name |-> <<"y", "e", "l", "l", "o", "w">>],
    [start_inclusive |-> 55, end_exclusive |-> 85, name |-> <<"l", "i", "m", "e">>],
    [start_inclusive |-> 85, end_exclusive |-> 165, name |-> <<"g", "r", "e", "e", "n">>],
    [start_inclusive |-> 165, end_exclusive |-> 200, name |-> <<"c", "y", "a", "n">>],
    [start_inclusive |-> 200, end_exclusive |-> 250, name |-> <<"b", "l", "u", "e">>],
    [start_inclusive |-> 250, end_exclusive |-> 285, name |-> <<"i", "n", "d", "i", "g", "o">>],
    [start_inclusive |-> 285, end_exclusive |-> 320, name |-> <<"p", "u", "r", "p", "l", "e">>],
    [start_inclusive |-> 320, end_exclusive |-> 350, name |-> <<"m", "a", "g", "e", "n", "t", "a">>]
  >>

DEFAULT_HUE_NAME == <<"p", "i", "n", "k", "i", "s", "h">>

\* x % 1.0 for a float x > -1
FMod1(x) == IF x.neg THEN FAdd(x, FInt(1)) ELSE x

HueSector(r, g, maxc, rc, gc, bc) ==
    IF FCmp(r, maxc) = 0 THEN FSub(bc, gc)
    ELSE IF FCmp(g, maxc) = 0 THEN FSub(FAdd(FInt(2), rc), bc)
    ELSE FSub(FAdd(FInt(4), gc), rc)

HsvOf(r, g, b, maxc, minc, rangec) ==
    IF FCmp(minc, maxc) = 0 THEN [h |-> FInt(0), s |-> FInt(0), v |-> maxc]
    ELSE [h |-> FMod1(FDivInt(HueSector(r, g, maxc,
                                        FDiv(FSub(maxc, r), rangec),
                                        FDiv(FSub(maxc, g), rangec),
                                        FDiv(FSub(maxc, b), rangec)), 6)),
          s |-> FDiv(rangec, maxc),
          v |-> maxc]

FMin(a, b) == IF FLe(a, b) THEN a ELSE b

Between(r, g, b, maxc, minc) == HsvOf(r, g, b, maxc, minc, FSub(maxc, minc))

\* colorsys.rgb_to_hsv, as approx_color_name calls it
rgb_to_hsv(r, g, b) == Between(r, g, b, FMax(FMax(r, g), b), FMin(FMin(r, g), b))

InBand(hue_degrees, band) ==
    /\ FLe(FInt(band.start_inclusive), hue_degrees)
    /\ FLt(hue_degrees, FInt(band.end_exclusive))

\* the loop over HUE_BANDS
BandName(hue_degrees) ==
    IF \E n \in 1..Len(HUE_BANDS) : InBand(hue_degrees, HUE_BANDS[n])
    THEN HUE_BANDS[CHOOSE n \in 1..Len(HUE_BANDS) :
                       /\ InBand(hue_degrees, HUE_BANDS[n])
                       /\ \A m \in 1..(n - 1) : ~InBand(hue_degrees, HUE_BANDS[m])].name
    ELSE DEFAULT_HUE_NAME

NameOfHsv(hsv) ==
    IF FLt(hsv.v, HSV_BLACK_VALUE_MAX) THEN <<"b", "l", "a", "c", "k">>
    ELSE IF FGt(hsv.v, HSV_WHITE_VALUE_MIN) /\ FLt(hsv.s, HSV_WHITE_SAT_MAX)
         THEN <<"w", "h", "i", "t", "e">>
    ELSE IF FLt(hsv.s, HSV_GRAY_SAT_MAX) THEN <<"g", "r", "a", "y">>
    ELSE BandName(FMul(hsv.h, DEGREES_FULL_CIRCLE))

approx_color_name(red, green, blue) ==
    NameOfHsv(rgb_to_hsv(FDivInt(FInt(red), MAX_BYTE),
                         FDivInt(FInt(green), MAX_BYTE),
                         FDivInt(FInt(blue), MAX_BYTE)))

(* ------------------------------------------------------------------ *)
(* net/color_api.py: the remote lookup over a response of the service *)
(* A Python call that raises is a record with the exception's name in *)
(* exc; JSON values carry their type.                                 *)
(* ------------------------------------------------------------------ *)
JNull == [type |-> "null"]
JString(chars) == [type |-> "string", chars |-> chars]
JNumber(tenths) == [type |-> "number", tenths |-> tenths]
JArray(items) == [type |-> "array", items |-> items]
JObject(fields) == [type |-> "object", fields |-> fields]

\* dict.get(key, default)
Get(object, key, default) ==
    IF key \in DOMAIN object.fields THEN object.fields[key] ELSE default

Returned(value) == [exc |-> "", value |-> value]
Raised(exc) == [exc |-> exc, value |-> JNull]

\* str.lstrip()
lstrip(text) ==
    IF \E i \in 1..Len(text) : text[i] \notin Whitespace
    THEN SubSeq(text, CHOOSE i \in 1..Len(text) :
                          text[i] \notin Whitespace
                          /\ \A k \in 1..(i - 1) : text[k] \in Whitespace, Len(text))
    ELSE << >>

strip(text) == lstrip(rstrip(text))

HexChars == Range(UpperHexDigits) \cup {"a", "b", "c", "d", "e", "f"}

UpperOf == [c \in Range(LowerCase) |-> UpperCase[CHOOSE i \in 1..Len(LowerCase) : LowerCase[i] = c]]

\* str.upper()
Upper(text) == [i \in 1..Len(text) |-> IF text[i] \in DOMAIN UpperOf THEN UpperOf[text[i]] ELSE text[i]]

_normalize_hex(hex_code) ==
    LET raw == strip(hex_code)
        cleaned == strip(IF Len(raw) > 0 /\ Head(raw) = "#" THEN Tail(raw) ELSE raw)
    IN  IF Len(cleaned) # 6 \/ \E i \in 1..Len(cleaned) : cleaned[i] \notin HexChars
        THEN Raised("ValueError")
        ELSE Returned(<<"#">> \o Upper(cleaned))

\* str(value) of a JSON string or null
StrOf(json) ==
    IF json.type = "string" THEN json.chars ELSE <<"N", "o", "n", "e">>

\* Returned(None), Returned(ColorNameInfo) or the exception that escapes
_extract_first_name(payload) ==
    IF payload.type # "object" THEN Raised("AttributeError")
    ELSE LET colors == Get(payload, "colors", JNull) IN
    IF colors.type # "array" \/ Len(colors.items) = 0 THEN Returned(JNull)
    ELSE LET first == colors.items[1] IN
    IF first.type # "object" THEN Raised("AttributeError")
    ELSE LET name_val == Get(first, "name", JNull)
             hex_val == Get(first, "hex", JNull)
             distance_val == Get(first, "distance", JNull)
             requested_val == Get(first, "requestedHex", JString(<< >>))
         IN
    IF name_val.type # "string" \/ hex_val.type # "string" THEN Returned(JNull)
    ELSE LET display_name == strip(name_val.chars)
             matched_hex_norm == _normalize_hex(hex_val.chars)
             requested_str == StrOf(requested_val)
             requested_hex_norm ==
                 _normalize_hex(IF Len(requested_str) > 0 /\ Head(requested_str) = "#"
                                THEN requested_str
                                ELSE <<"#">> \o requested_str)
             distance_num == IF distance_val.type = "number"
                             THEN FDivInt(FInt(distance_val.tenths), 10)
                             ELSE FInt(0)
         IN
    IF matched_hex_norm.exc # "" THEN Raised(matched_hex_norm.exc)
    ELSE IF requested_hex_norm.exc # "" THEN Raised(requested_hex_norm.exc)
    ELSE Returned([type |-> "ColorNameInfo",
                   requested_hex |-> requested_hex_norm.value,
                   display_name |-> display_name,
                   matched_hex |-> matched_hex_norm.value,
                   distance |-> distance_num,
                   exact_match |-> \/ FCmp(distance_num, FInt(0)) = 0
                                   \/ matched_hex_norm.value = requested_hex_norm.value])

\* response: what the HTTP exchange gives: a transport or status failure, a
\* body that is not JSON, or a JSON payload
get_color_name_from_hex(hex_code, response) ==
    LET normalized_hex == _normalize_hex(hex_code) IN
    IF normalized_hex.exc # "" THEN Raised(normalized_hex.exc)
    ELSE IF response.transport # "ok" THEN Raised("HTTPError")
    ELSE IF ~response.json THEN Raised("ValueError")
    ELSE LET info == _extract_first_name(response.payload) IN
    IF info.exc # "" THEN Raised(info.exc)
    ELSE IF info.value.type = "null" THEN Raised("RuntimeError")
    ELSE info

COLOR_NAME == [api_distance_max |-> FInt(20)]

\* with httpx importable the handler of _resolve_display_name catches these
api_errors == {"ValueError", "RuntimeError", "HTTPError"}

\* the import of color_api (and with it httpx) and the call pizza_lookup(hex_code):
\* remote.available says that the import succeeds
pizza_lookup(remote, hex_code) ==
    IF ~remote.available THEN Raised("ImportError")
    ELSE get_color_name_from_hex(hex_code, remote.response)

\* _resolve_display_name with < in place of <=
ResolveBelowMax(found, rgb) ==
    IF found.exc = "ImportError" \/ found.exc \in api_errors
    THEN Returned(approx_color_name(rgb[1], rgb[2], rgb[3]))
    ELSE IF found.exc # "" THEN Raised(found.exc)
    ELSE IF FLt(found.value.distance, COLOR_NAME.api_distance_max)
         THEN Returned(found.value.display_name)
         ELSE Returned(approx_color_name(rgb[1], rgb[2], rgb[3]))

\* _resolve_display_name from the point where the lookup has ended as found:
\* the name returned, or the exception that escapes
_resolve_display_name(found, rgb) ==
    IF found.exc = "ImportError" \/ found.exc \in api_errors
    THEN Returned(approx_color_name(rgb[1], rgb[2], rgb[3]))
    ELSE IF found.exc # "" THEN Raised(found.exc)
    ELSE IF FLe(found.value.distance, COLOR_NAME.api_distance_max)
         THEN Returned(found.value.display_name)
         ELSE Returned(approx_color_name(rgb[1], rgb[2], rgb[3]))

(* ------------------------------------------------------------------ *)
(* tts/utterances.py, tts/tts_runner.py                               *)
(* ------------------------------------------------------------------ *)
\* locale.lower().startswith("de")
IsGerman(locale) == locale \in {"de", "de-DE", "DE-de"}

_quote(text, locale) ==
    IF IsGerman(locale) THEN <<"GERMAN_OPEN_QUOTE">> \o text \o <<"GERMAN_CLOSE_QUOTE">>
    ELSE <<"EN_OPEN_QUOTE">> \o text \o <<"EN_CLOSE_QUOTE">>

\* the sentence as the sequence of its fragments and characters
make_tts_sentence(original, result, locale, include_hex) ==
    LET quoted == _quote(original, locale)
        ending == IF include_hex THEN result.name \o <<" ">> \o result.hex \o <<".">>
                  ELSE result.name \o <<".">>
    IN  IF IsGerman(locale)
        THEN <<"Der Satz ">> \o quoted \o <<" hat die Farbe ">> \o ending
        ELSE <<"The sentence ">> \o quoted \o <<" has the color ">> \o ending

\* Queue.put_nowait on a queue of capacity max_queue: the new queue, or Full
put_nowait(queue, max_queue, item) ==
    IF max_queue > 0 /\ Len(queue) >= max_queue THEN Raised("Full")
    ELSE Returned(Append(queue, item))

(* ------------------------------------------------------------------ *)
(* Bounds and input domains                                           *)
(* ------------------------------------------------------------------ *)
MaxPieces == 2
MaxQueue == 1
MaxWorkers == 2
MaxCallers == 2
MaxCalls == 3
MaxEngineCalls == 2
MaxCount == 40
MaxRepeat == 20
MaxWords == 6
MaxMarks == 4

\* the fragments the input texts are built of: a colour word, a suffix,
\* a frequency letter, punctuation
Pieces ==
    { <<"b", "l", "a", "u">>, <<"l", "i", "c", "h">>, <<"r">>, <<"!">>, <<"?">> }

RECURSIVE TextsOf(_)
TextsOf(n) ==
    IF n = 0 THEN {<< >>}
    ELSE TextsOf(n - 1) \cup {t \o p : t \in TextsOf(n - 1), p \in Pieces}

\* texts of the tests and of the documentation, and texts with an umlaut, a
\* sharp s, upper case, whitespace, a dash, two stems in one word
Examples ==
    { <<"i", "c", "h", " ", "b", "i", "n", " ", "b", "l", "a", "u">>,
      <<"b", "l", "a_uml", "u", "l", "i", "c", "h">>,
      <<"b", "l", "a", "e", "u", "l", "i", "c", "h">>,
      <<"r", "-", "-">>, <<"a">>, <<"t">>, <<"a", "?">>, <<"G", "r", "u_uml", "n", " ", "!">>,
      <<"s", "i", "l", "b", "e", "r", "n">>, <<"r", "g", " ">>, <<"S", "t", "r", "a", "eszett", "e", "?">>,
      <<" ", "?", " ">>, <<"B", "l", "a", "u", " ", "r", "o", "t">>, <<"o_uml", "l">>,
      <<"b", "l", "a", "u", "f", "a", "r", "b", "e", "n">>,
      <<"b", "l", "a", "u", "f", "a", "r", "b", "i", "g">>,
      <<"b", "l", "a", "u", "s", "t", "i", "c", "h", "i", "g">>,
      <<"r", "r", " ", "b", "l", "a", "u">>, <<"Z", "y", "x">> }

Texts == TextsOf(MaxPieces) \cup Examples

Blau == <<"b", "l", "a", "u">>

\* a colour word with each suffix of the pattern, with another ending, with
\* the umlaut stem, and a second colour
SuffixedWords ==
    {Blau \o suffix : suffix \in {SuffixAlternatives[k].chars : k \in 1..Len(SuffixAlternatives)}}
    \cup {Blau, Blau \o <<"e">>, <<"b", "l", "a", "e", "u", "l", "i", "c", "h">>,
          <<"r", "o", "t">>, <<"B", "L", "A", "U", "L", "I", "C", "H">>}

\* the words of the sentences with several matches
ColourWords == {Blau, <<"r", "o", "t", "l", "i", "c", "h">>}

\* sentences of up to n colour words
RECURSIVE SentencesOf(_)
SentencesOf(n) ==
    IF n = 0 THEN {<< >>}
    ELSE SentencesOf(n - 1)
         \cup {IF s = << >> THEN w ELSE s \o <<" ">> \o w : s \in SentencesOf(n - 1), w \in ColourWords}

\* a word two stems of one colour match, alone and beside another colour, a
\* colour word inside a word, and words without any colour
OverlapTexts ==
    { <<"s", "i", "l", "b", "e", "r", "n">>,
      <<"s", "i", "l", "b", "e", "r", "n", " ", "b", "l", "a", "u">>,
      <<"B", "r", "o", "n", "z", "e", "n", "-", "r", "o", "t">>,
      <<"b", "l", "a", "u", "r", "o", "t">>,
      <<"i", "n", "r", "o", "t", " ", "a", "b">> }

OverrideTexts == SentencesOf(MaxWords) \cup SuffixedWords \cup OverlapTexts

\* the fields of ComputeConfig that steer the colour
ColourSettings ==
    [mode : {"freq", "anchor"}, denominator : {"visible", "letters", "rgb_hits"},
     apply_length_floor : BOOLEAN, punctuation_mods : BOOLEAN]

\* the speech fields of ComputeConfig; tts_backend and tts_runner: not None
SpeechSettings ==
    [speak_enabled : BOOLEAN, speak_locale : {"de-DE", "en-US"}, speak_include_hex : BOOLEAN,
     tts_backend : BOOLEAN, tts_async : BOOLEAN, tts_runner : BOOLEAN]

\* the defaults of the speech fields
SpeechOff ==
    [speak_enabled |-> FALSE, speak_locale |-> "de-DE", speak_include_hex |-> FALSE,
     tts_backend |-> FALSE, tts_async |-> FALSE, tts_runner |-> FALSE]

ComputeConfig(colour, speech) == colour @@ speech

DEFAULT_CONFIG ==
    ComputeConfig([mode |-> "freq", denominator |-> "visible", apply_length_floor |-> TRUE,
                   punctuation_mods |-> TRUE], SpeechOff)

\* every colour configuration, speech left off
Configs == {ComputeConfig(colour, SpeechOff) : colour \in ColourSettings}

\* what the service may send: entries of the colors list
NameValues == {JNull, JString(<<" ">>), JString(<<"R", "e", "d", " ">>)}
HexValues == {JNull, JString(<<"#", "f", "f", "0", "0", "0", "0">>), JString(<<"r", "e", "d">>)}
DistanceValues == {JNull, JNumber(200), JNumber(201)}
RequestedValues == {JNull, JString(<<"f", "f", "0", "0", "0", "0">>)}

Entry(name, hex, distance, requested) ==
    JObject([k \in {"name", "hex", "distance"} \cup (IF requested = JNull THEN {} ELSE {"requestedHex"}) |->
                CASE k = "name" -> name
                  [] k = "hex" -> hex
                  [] k = "distance" -> distance
                  [] k = "requestedHex" -> requested])

Entries ==
    {Entry(n, h, d, r) : n \in NameValues, h \in HexValues,
                         d \in DistanceValues, r \in RequestedValues}

Payloads ==
    {JNull, JArray(<< >>), JObject([k \in {"error"} |-> JNull]),
     JObject([k \in {"colors"} |-> JString(<< >>)]),
     JObject([k \in {"colors"} |-> JArray(<< >>)]),
     JObject([k \in {"colors"} |-> JArray(<<JString(<<"r", "e", "d">>)>>)])}
    \cup {JObject([k \in {"colors"} |-> JArray(<<e>>)]) : e \in Entries}

Responses ==
    {[transport |-> "error", json |-> FALSE, payload |-> JNull],
     [transport |-> "ok", json |-> FALSE, payload |-> JNull]}
    \cup {[transport |-> "ok", json |-> TRUE, payload |-> p] : p \in Payloads}

NoResponse == [transport |-> "error", json |-> FALSE, payload |-> JNull]

\* the lookup cannot be imported
Absent == [available |-> FALSE, response |-> NoResponse]

\* the remote situations: the lookup cannot be imported, or it gets a response
Remotes == {Absent} \cup {[available |-> TRUE, response |-> r] : r \in Responses}

\* no live lookup: it is absent or the transport fails
OfflineRemotes == {r \in Remotes : ~r.available \/ r.response.transport # "ok"}

\* what backend.speak does: returns, or raises one of these
SpeakOutcomes == {"", "RuntimeError", "OSError", "ValueError"}

(* ------------------------------------------------------------------ *)
(* State: one compute_color call at a time, stage by stage; the       *)
(* TtsRunner with its workers and the threads that call it; the       *)
(* command line of ui/cli.py.                                         *)
(* ------------------------------------------------------------------ *)
VARIABLES
    pc,             \* the stage of compute_color that runs next
    text,           \* original_text
    cfg,            \* the ComputeConfig of the call
    text_trans,
    freq_result,    \* (rgb, base_count) of _compute_rgb_freq
    base_rgb,
    with_override,
    with_punct,
    hex_code,
    lookup,         \* how the remote lookup ended: its answer or its exception
    display_name,
    spoken,         \* what _maybe_speak called, and the exception it met
    outcome,        \* "returned" or "raised" once the call ended
    result,         \* the ComputeResult
    earlier,        \* an earlier call that returned: its text, cfg and result
    runner,         \* TtsRunner: _queue, _thread, _stop (0: None, k: of worker k)
    workers,        \* per ensure_started that got to line 37: queue, stop event, thread
    callers,        \* the threads that call the runner: the call and its position
    calls,          \* the number of calls of methods of the runner so far
    argv,           \* the command line given to main
    args            \* the Namespace parse_args returned

vars == <<pc, text, cfg, text_trans, freq_result, base_rgb, with_override, with_punct,
          hex_code, lookup, display_name, spoken, outcome, result, earlier,
          runner, workers, callers, calls, argv, args>>

runner_vars == <<runner, workers, callers, calls>>
cli_vars == <<argv, args>>

None == << >>
NoConfig == [mode |-> "", denominator |-> "", apply_length_floor |-> FALSE,
             punctuation_mods |-> FALSE] @@ SpeechOff
NoFreqResult == [rgb |-> None, base_count |-> 0]
NoResult == [rgb |-> None, hex |-> None, name |-> None]
NotSpoken == [how |-> "", exc |-> "", sentence |-> None]
NoLookup == [exc |-> "", value |-> JNull]
NoCall == [text |-> None, cfg |-> NoConfig, result |-> NoResult, calls |-> 0]
\* a TtsRunner after construction; observed: whether the histories of its workers are kept
NoRunner == [_queue |-> 0, _thread |-> 0, _stop |-> 0, observed |-> FALSE]
NoArgs == [text |-> None, denom |-> "", no_punct |-> FALSE, no_floor |-> FALSE, mode |-> ""]

\* the threads that call the runner; the first one is the one that calls compute_color
Callers == 1..MaxCallers
MainThread == CHOOSE c \in Callers : \A d \in Callers : c <= d

\* a thread that is in no method of the runner
IdleCaller == [op |-> "", at |-> "", text |-> None, made |-> 0, exc |-> ""]
NoCallers == [c \in Callers |-> IdleCaller]

\* nothing has been called
Fresh ==
    /\ text = None
    /\ cfg = NoConfig
    /\ text_trans = None
    /\ freq_result = NoFreqResult
    /\ base_rgb = None
    /\ with_override = None
    /\ with_punct = None
    /\ hex_code = None
    /\ lookup = NoLookup
    /\ display_name = None
    /\ spoken = NotSpoken
    /\ outcome = ""
    /\ result = NoResult
    /\ earlier = NoCall
    /\ runner = NoRunner
    /\ workers = << >>
    /\ callers = NoCallers
    /\ calls = 0
    /\ argv = None
    /\ args = NoArgs

Init ==
    /\ pc = "idle"
    /\ Fresh

\* the name is not resolved, nothing is spoken, no runner, no command line
NothingLater ==
    /\ lookup = NoLookup
    /\ display_name = None
    /\ spoken = NotSpoken
    /\ outcome = ""
    /\ result = NoResult
    /\ earlier = NoCall
    /\ runner = NoRunner
    /\ workers = << >>
    /\ callers = NoCallers
    /\ calls = 0
    /\ argv = None
    /\ args = NoArgs

\* compute_color(text, cfg) is entered: original_text, text_trans
CallFrom(texts, configs) ==
    /\ pc = "idle"
    /\ callers[MainThread].op = ""
    /\ \E t \in texts, c \in configs :
          /\ text' = t
          /\ cfg' = c
          /\ text_trans' = transliterate_de(t)
    /\ pc' = "derive"
    /\ UNCHANGED <<freq_result, base_rgb, with_override, with_punct, hex_code, lookup,
                   display_name, spoken, outcome, result, earlier>>
    /\ UNCHANGED <<runner_vars, cli_vars>>

Call == CallFrom(Texts, Configs)

DeriveFreq ==
    /\ pc = "derive"
    /\ cfg.mode = "freq"
    /\ freq_result' = _compute_rgb_freq(text_trans, cfg.denominator)
    /\ pc' = "length_floor"
    /\ UNCHANGED <<text, cfg, text_trans, base_rgb, with_override, with_punct, hex_code,
                   lookup, display_name, spoken, outcome, result, earlier>>
    /\ UNCHANGED <<runner_vars, cli_vars>>

LengthFloor ==
    /\ pc = "length_floor"
    /\ base_rgb' = _apply_length_floor(freq_result.rgb, freq_result.base_count, cfg)
    /\ pc' = "blend"
    /\ UNCHANGED <<text, cfg, text_trans, freq_result, with_override, with_punct, hex_code,
                   lookup, display_name, spoken, outcome, result, earlier>>
    /\ UNCHANGED <<runner_vars, cli_vars>>

\* an else branch that looks at the floor switch: the anchor colour only with
\* the floor off, the floored frequency colour with the floor on
DeriveByFloorSwitch ==
    /\ pc = "derive"
    /\ cfg.mode # "freq"
    /\ base_rgb' = IF cfg.apply_length_floor
                   THEN _apply_length_floor(_compute_rgb_freq(text_trans, cfg.denominator).rgb,
                                            _compute_rgb_freq(text_trans, cfg.denominator).base_count,
                                            cfg)
                   ELSE _compute_rgb_anchor(text_trans)
    /\ pc' = "blend"
    /\ UNCHANGED <<text, cfg, text_trans, freq_result, with_override, with_punct, hex_code,
                   lookup, display_name, spoken, outcome, result, earlier>>
    /\ UNCHANGED <<runner_vars, cli_vars>>

DeriveAnchor ==
    /\ pc = "derive"
    /\ cfg.mode # "freq"
    /\ IF AnchorRaises(text_trans)
       THEN /\ pc' = "done"
            /\ outcome' = "raised"
            /\ UNCHANGED base_rgb
       ELSE /\ base_rgb' = _compute_rgb_anchor(text_trans)
            /\ pc' = "blend"
            /\ outcome' = outcome
    /\ UNCHANGED <<text, cfg, text_trans, freq_result, with_override, with_punct, hex_code,
                   lookup, display_name, spoken, result, earlier>>
    /\ UNCHANGED <<runner_vars, cli_vars>>

\* the blend left out once a thread of the runner has been started
BlendWhileQuiet ==
    /\ pc = "blend"
    /\ with_override' = IF runner._thread = 0 THEN _blend_override(base_rgb, text_trans)
                        ELSE base_rgb
    /\ pc' = "punctuation"
    /\ UNCHANGED <<text, cfg, text_trans, freq_result, base_rgb, with_punct, hex_code,
                   lookup, display_name, spoken, outcome, result, earlier>>
    /\ UNCHANGED <<runner_vars, cli_vars>>

BlendOverride ==
    /\ pc = "blend"
    /\ with_override' = _blend_override(base_rgb, text_trans)
    /\ pc' = "punctuation"
    /\ UNCHANGED <<text, cfg, text_trans, freq_result, base_rgb, with_punct, hex_code,
                   lookup, display_name, spoken, outcome, result, earlier>>
    /\ UNCHANGED <<runner_vars, cli_vars>>

ApplyPunctuation ==
    /\ pc = "punctuation"
    /\ with_punct' = _apply_punctuation(with_override, text, cfg)
    /\ pc' = "to_hex"
    /\ UNCHANGED <<text, cfg, text_trans, freq_result, base_rgb, with_override, hex_code,
                   lookup, display_name, spoken, outcome, result, earlier>>
    /\ UNCHANGED <<runner_vars, cli_vars>>

ToHex ==
    /\ pc = "to_hex"
    /\ hex_code' = rgb_to_hex(with_punct[1], with_punct[2], with_punct[3])
    /\ pc' = "lookup"
    /\ UNCHANGED <<text, cfg, text_trans, freq_result, base_rgb, with_override, with_punct,
                   lookup, display_name, spoken, outcome, result, earlier>>
    /\ UNCHANGED <<runner_vars, cli_vars>>

\* _resolve_display_name, first part: the lookup is imported and called
RemoteLookupIn(remotes) ==
    /\ pc = "lookup"
    /\ \E remote \in remotes : lookup' = pizza_lookup(remote, hex_code)
    /\ pc' = "resolve_name"
    /\ UNCHANGED <<text, cfg, text_trans, freq_result, base_rgb, with_override, with_punct,
                   hex_code, display_name, spoken, outcome, result, earlier>>
    /\ UNCHANGED <<runner_vars, cli_vars>>

\* the lookup is not installed
LocalLookup == RemoteLookupIn({Absent})

\* _resolve_display_name, second part: the name is chosen and the ComputeResult
\* is built; an exception that escapes ends the call
ResolveName ==
    /\ pc = "resolve_name"
    /\ LET name == _resolve_display_name(lookup, with_punct) IN
       IF name.exc = ""
       THEN /\ display_name' = name.value
            /\ result' = [rgb |-> with_punct, hex |-> hex_code, name |-> name.value]
            /\ pc' = "speak"
            /\ outcome' = outcome
       ELSE /\ pc' = "done"
            /\ outcome' = "raised"
            /\ UNCHANGED <<display_name, result>>
    /\ UNCHANGED <<text, cfg, text_trans, freq_result, base_rgb, with_override, with_punct,
                   hex_code, lookup, spoken, earlier>>
    /\ UNCHANGED <<runner_vars, cli_vars>>

\* _maybe_speak ends: it returns, or the exception exc escapes it
Finish(how, exc, sentence) ==
    /\ spoken' = [how |-> how, exc |-> exc, sentence |-> sentence]
    /\ outcome' = IF exc \in {"", "RuntimeError"} THEN "returned" ELSE "raised"
    /\ pc' = "done"

Sentence == make_tts_sentence(text, result, cfg.speak_locale, cfg.speak_include_hex)

\* _maybe_speak, speech off or no backend: nothing to do
SpeakNothing ==
    /\ pc = "speak"
    /\ ~cfg.speak_enabled \/ ~cfg.tts_backend
    /\ Finish("", "", None)
    /\ UNCHANGED <<text, cfg, text_trans, freq_result, base_rgb, with_override, with_punct,
                   hex_code, lookup, display_name, result, earlier>>
    /\ UNCHANGED <<runner_vars, cli_vars>>

\* _maybe_speak without a runner: backend.speak(sentence) returns or raises
SpeakBlocking ==
    /\ pc = "speak"
    /\ cfg.speak_enabled /\ cfg.tts_backend
    /\ ~(cfg.tts_async /\ cfg.tts_runner)
    /\ \E exc \in SpeakOutcomes : Finish("speak", exc, Sentence)
    /\ UNCHANGED <<text, cfg, text_trans, freq_result, base_rgb, with_override, with_punct,
                   hex_code, lookup, display_name, result, earlier>>
    /\ UNCHANGED <<runner_vars, cli_vars>>

\* the caller has the result or the exception; the next call may start
Return ==
    /\ pc = "done"
    /\ pc' = "idle"
    /\ text' = None
    /\ cfg' = NoConfig
    /\ text_trans' = None
    /\ freq_result' = NoFreqResult
    /\ base_rgb' = None
    /\ with_override' = None
    /\ with_punct' = None
    /\ hex_code' = None
    /\ lookup' = NoLookup
    /\ display_name' = None
    /\ spoken' = NotSpoken
    /\ outcome' = ""
    /\ result' = NoResult
    /\ UNCHANGED earlier
    /\ UNCHANGED <<runner_vars, cli_vars>>

\* compute_color on every text under every colour configuration, the remote
\* lookup not installed, speech off
Next ==
    \/ Call
    \/ DeriveFreq
    \/ LengthFloor
    \/ DeriveAnchor
    \/ BlendOverride
    \/ ApplyPunctuation
    \/ ToHex
    \/ LocalLookup
    \/ ResolveName
    \/ SpeakNothing
    \/ Return

Spec == Init /\ [][Next]_vars

(* ------------------------------------------------------------------ *)
(* compute_color up to with_punct, as a function of text and cfg      *)
(* ------------------------------------------------------------------ *)
Floored(found, config) == _apply_length_floor(found.rgb, found.base_count, config)

BaseRgbOf(trans, config) ==
    IF config.mode = "freq" THEN Floored(_compute_rgb_freq(trans, config.denominator), config)
    ELSE _compute_rgb_anchor(trans)

ModulatedOf(original, trans, config) ==
    _apply_punctuation(_blend_override(BaseRgbOf(trans, config), trans), original, config)

\* compute_color(text, cfg).rgb
RgbOf(original, config) == ModulatedOf(original, transliterate_de(original), config)

(* ------------------------------------------------------------------ *)
(* Properties of compute_color                                        *)
(* ------------------------------------------------------------------ *)
IsRgb(rgb) == Len(rgb) = 3 /\ \A i \in 1..3 : rgb[i] \in 0..255

\* the colours of the stages that have run in the current call
StageColours == {freq_result.rgb, base_rgb, with_override, with_punct, result.rgb} \ {None}

\* C1: every channel of the colour after every stage of compute_color (base
\* derivation, length floor, override blend, punctuation modulation) and of the
\* returned rgb is an integer in 0..255, for every text and configuration
C1_ChannelsInRange == \A rgb \in StageColours : IsRgb(rgb)

\* a call on a non-ASCII text with punctuation has returned its result
C1_Witness ==
    /\ pc = "done"
    /\ outcome = "returned"
    /\ text = <<"G", "r", "u_uml", "n", " ", "!">>
    /\ cfg.punctuation_mods
    /\ result.rgb = with_punct
    /\ Cardinality(StageColours) >= 2

\* punctuation modulation has just run on with_override and given with_punct
Modulated == pc = "to_hex" /\ cfg.punctuation_mods

\* C2: when the clamped punctuation score of the text is negative (brightness
\* multiplier below 1), the luminance of the colour _apply_punctuation returns
\* is less than or equal to the luminance of the colour it was given
C2_DarkenNeverBrightens ==
    (Modulated /\ PunctuationScore(text) < 0)
        => FLe(_luminance_255(with_punct), _luminance_255(with_override))

\* C3: when the clamped punctuation score of the text is positive (brightness
\* multiplier above 1), the luminance of the colour _apply_punctuation returns
\* is greater than or equal to the luminance of the colour it was given
C3_BrightenNeverDarkens ==
    (Modulated /\ PunctuationScore(text) > 0)
        => FGe(_luminance_255(with_punct), _luminance_255(with_override))

\* the value of an upper-case hexadecimal digit, -1 for any other character
HexValue(c) ==
    IF \E k \in 1..16 : UpperHexDigits[k] = c
    THEN (CHOOSE k \in 1..16 : UpperHexDigits[k] = c) - 1
    ELSE -1

\* hex is '#' and three pairs of upper-case digits that spell the channels of rgb
Encodes(hex, rgb) ==
    /\ Len(hex) = 7
    /\ hex[1] = "#"
    /\ \A i \in 1..3 : /\ HexValue(hex[2 * i]) >= 0
                       /\ HexValue(hex[2 * i + 1]) >= 0
                       /\ 16 * HexValue(hex[2 * i]) + HexValue(hex[2 * i + 1]) = rgb[i]

\* C8: the hex of every result of compute_color is '#' followed by the two-digit
\* zero-padded upper-case hexadecimal encoding of rgb[0], rgb[1], rgb[2], seven
\* characters that describe the same colour as rgb
C8_HexEncodesRgb == result # NoResult => Encodes(result.hex, result.rgb)

\* a result with a channel below 16 (a padded digit) and a channel above 159 (a
\* letter digit)
C8_Witness ==
    /\ result # NoResult
    /\ \E i \in 1..3 : result.rgb[i] \in 1..15
    /\ \E i \in 1..3 : result.rgb[i] >= 160

(* ------------------------------------------------------------------ *)
(* _blend_override on its own: every base colour of a small set under *)
(* sentences of colour words                                          *)
(* ------------------------------------------------------------------ *)


BaseColours == {<<0, 0, 0>>, <<255, 128, 1>>}

InitOverride ==
    /\ pc = "blend"
    /\ text \in OverrideTexts
    /\ text_trans = text
    /\ cfg \in {c \in Configs : c.mode = "anchor" /\ c.denominator = "visible"
                                /\ ~c.apply_length_floor /\ ~c.punctuation_mods}
    /\ base_rgb \in BaseColours
    /\ freq_result = NoFreqResult
    /\ with_override = None
    /\ with_punct = None
    /\ hex_code = None
    /\ NothingLater

NextOverride == BlendOverride

SpecOverride == InitOverride /\ [][NextOverride]_vars

Literal(n, d) == FDivInt(FInt(n), d)

WeightInRange(found) ==
    found.found => FLe(FInt(0), found.weight) /\ FLe(found.weight, Literal(70, 100))

\* C9: whenever find_override_and_weight returns an override, for any number and
\* mix of matched colour words and suffixes, the blend weight lies in [0, 0.70]
C9_WeightInRange ==
    pc = "punctuation" => WeightInRange(find_override_and_weight(text_trans))

MixedMatches(found) ==
    found.found /\ found.match_count >= 2 /\ FLt(found.weight, Literal(70, 100))

\* an override averaged over several matches with different suffixes was blended
C9_Witness ==
    /\ pc = "punctuation"
    /\ MixedMatches(find_override_and_weight(text_trans))
    /\ with_override # base_rgb

(* ------------------------------------------------------------------ *)
(* Properties of the override blend within compute_color              *)
(* ------------------------------------------------------------------ *)
\* the suffixes of the pattern from the strongest to the weakest weight, and
\* the weights in hundredths
SuffixStrength ==
    <<[suffix |-> << >>, hundredths |-> 70],
      [suffix |-> <<"f", "a", "r", "b", "e", "n">>, hundredths |-> 60],
      [suffix |-> <<"f", "a", "r", "b", "i", "g">>, hundredths |-> 60],
      [suffix |-> <<"s", "t", "i", "c", "h", "i", "g">>, hundredths |-> 50],
      [suffix |-> <<"l", "i", "c", "h">>, hundredths |-> 35]>>

WeightOf(trans) == find_override_and_weight(trans).weight

\* the word made of the stem and the k-th suffix has the k-th weight, which is
\* below the weight of the word with any suffix of a greater number
OrderedFrom(k) ==
    /\ FCmp(WeightOf(Blau \o SuffixStrength[k].suffix),
            Literal(SuffixStrength[k].hundredths, 100)) = 0
    /\ \A j \in 1..(k - 1) :
          SuffixStrength[j].hundredths > SuffixStrength[k].hundredths
              => FLt(WeightOf(Blau \o SuffixStrength[k].suffix),
                     WeightOf(Blau \o SuffixStrength[j].suffix))

Blaeulich == <<"b", "l", "a", "e", "u", "l", "i", "c", "h">>

\* punctuation and length floor off, the other fields as ComputeConfig() has them
PlainDefault(config) ==
    /\ ~config.punctuation_mods
    /\ ~config.apply_length_floor
    /\ config.mode = DEFAULT_CONFIG.mode
    /\ config.denominator = DEFAULT_CONFIG.denominator

AllBareBlau(matches) ==
    /\ Len(matches) > 0
    /\ \A i \in 1..Len(matches) :
          matches[i].color_key = "blau" /\ matches[i].suffix = BASE_WORD_SUFFIX_KEY

OnlyBareBlau(trans) == AllBareBlau(Visited(trans, 1, Len(OVERRIDE_COLOR_STEMS)))

\* C11: in frequency mode with punctuation modulation off, for every text whose
\* only colour-word matches are the bare word 'blau', the blue channel of the
\* result is greater than or equal to the red and to the green channel
C11_BlueDominates ==
    (pc = "done" /\ outcome = "returned" /\ cfg.mode = "freq" /\ ~cfg.punctuation_mods
     /\ OnlyBareBlau(text_trans))
        => result.rgb[3] >= result.rgb[1] /\ result.rgb[3] >= result.rgb[2]

\* such a call has returned for a text whose letter frequencies alone give more
\* red than blue
C11_Witness ==
    /\ pc = "done"
    /\ outcome = "returned"
    /\ cfg.mode = "freq"
    /\ ~cfg.punctuation_mods
    /\ OnlyBareBlau(text_trans)
    /\ base_rgb[1] > base_rgb[3]
    /\ result.rgb[3] > result.rgb[1]

\* C13: compute_color(t).rgb equals compute_color(transliterate_de(t)).rgb for
\* every text t and every configuration: a word spelled with umlauts or sharp s
\* and the word spelled with ae, oe, ue, ss give the same colour
C13_TransliterationEquivalence ==
    (pc = "done" /\ outcome = "returned") => result.rgb = RgbOf(text_trans, cfg)

\* a call on a text with an umlaut or a sharp s and with punctuation that
\* modulates the colour has returned
C13_Witness ==
    /\ pc = "done"
    /\ outcome = "returned"
    /\ text # text_trans
    /\ cfg.punctuation_mods
    /\ PunctuationScore(text) # 0
    /\ with_punct # with_override

(* ------------------------------------------------------------------ *)
(* Properties of the base colour                                      *)
(* ------------------------------------------------------------------ *)
NoColourWord(trans) == ~find_override_and_weight(trans).found

WithDenominator(config, denominator) == [config EXCEPT !.denominator = denominator]

ChannelsAtMost(low, high) == \A i \in 1..3 : low[i] <= high[i]

\* frequency mode, VISIBLE denominator, floor and punctuation off, and a text
\* without colour word: the call has returned
VisiblePlain ==
    /\ pc = "done"
    /\ outcome = "returned"
    /\ cfg.mode = "freq"
    /\ cfg.denominator = "visible"
    /\ ~cfg.apply_length_floor
    /\ ~cfg.punctuation_mods
    /\ NoColourWord(text_trans)

\* C14: in frequency mode with length floor and punctuation off and no
\* colour-word match, each channel computed with the VISIBLE denominator is at
\* most the same channel computed with the LETTERS denominator, and for the text
\* 'r--' the VISIBLE red channel is strictly less than the LETTERS red channel
C14_DenominatorSensitivity ==
    VisiblePlain =>
        /\ ChannelsAtMost(result.rgb, RgbOf(text, WithDenominator(cfg, "letters")))
        /\ text = <<"r", "-", "-">>
              => result.rgb[1] < RgbOf(text, WithDenominator(cfg, "letters"))[1]

\* the call on 'r--' has returned a red channel above 0
C14_Witness ==
    /\ VisiblePlain
    /\ text = <<"r", "-", "-">>
    /\ result.rgb[1] > 0

\* the anchors of the alphabet circle: r = 17, g = 6, b = 1
AnchorAt == [R |-> 17, G |-> 6, B |-> 1]

\* the circular distance modulo 26 between two letter indexes
Circular(a, b) == IF (a - b) % 26 < (b - a) % 26 THEN (a - b) % 26 ELSE (b - a) % 26

\* key is the only anchor nearest to the letter
UniquelyNearest(key, letter) ==
    \A other \in DOMAIN AnchorAt \ {key} :
        Circular(_letter_index(letter), AnchorAt[key])
            < Circular(_letter_index(letter), AnchorAt[other])

\* there are letters, and key is the unique nearest anchor of each
SameAnchor(letters, key) ==
    Len(letters) > 0 /\ \A i \in 1..Len(letters) : UniquelyNearest(key, letters[i])

PureChannel(key) ==
    <<IF key = "R" THEN 255 ELSE 0, IF key = "G" THEN 255 ELSE 0, IF key = "B" THEN 255 ELSE 0>>

\* anchor mode, punctuation off, a text without colour word: the call has returned
AnchorPlain ==
    /\ pc = "done"
    /\ outcome = "returned"
    /\ cfg.mode = "anchor"
    /\ ~cfg.punctuation_mods
    /\ NoColourWord(text_trans)

FloorChannels == {0, 1, 79, 128, 255}
FloorColours == {<<r, g, b>> : r \in FloorChannels, g \in FloorChannels, b \in FloorChannels}

\* frequency mode, punctuation off, either setting of the floor
FloorConfigs == {c \in Configs : c.mode = "freq" /\ ~c.punctuation_mods}

RECURSIVE Repeated(_, _)
Repeated(piece, n) ==
    IF n = 0 THEN << >>
    ELSE IF n = 1 THEN piece
    ELSE Repeated(piece, n \div 2) \o Repeated(piece, n - n \div 2)

\* 'rg' and 'rg ' repeated: the same letter ratios at growing lengths
RgTexts == {<<"r", "g">>} \cup {Repeated(<<"r", "g", " ">>, n) : n \in 1..MaxRepeat}

InitFloor ==
    /\ cfg \in FloorConfigs
    /\ \/ /\ pc = "length_floor"
          /\ text = None
          /\ freq_result \in [rgb : FloorColours, base_count : 0..MaxCount]
          /\ cfg.denominator = "visible"
       \/ /\ pc = "derive"
          /\ text \in RgTexts
          /\ freq_result = NoFreqResult
    /\ text_trans = text
    /\ base_rgb = None
    /\ with_override = None
    /\ with_punct = None
    /\ hex_code = None
    /\ NothingLater

NextFloor ==
    \/ DeriveFreq
    \/ LengthFloor

SpecFloor == InitFloor /\ [][NextFloor]_vars

\* the length floor has just run on freq_result and given base_rgb
FloorApplied == pc = "blend"

\* no floor is due: it is off, or the count, or the peak, is 0, or the peak is
\* at or above the target
NoFloorDue(found, config) ==
    \/ ~config.apply_length_floor
    \/ found.base_count = 0
    \/ Max3(found.rgb) = 0
    \/ Max3(found.rgb) >= _length_floor_target(found.base_count)

\* C10: each channel of the colour _apply_length_floor returns is at least the
\* same channel of its input, for every base colour, base count and setting of
\* the flag; the colour is returned unchanged when the floor is off, the base
\* count is 0, the peak channel is 0, or the peak is at or above the target
C10_FloorNeverDarkens ==
    FloorApplied =>
        /\ ChannelsAtMost(freq_result.rgb, base_rgb)
        /\ NoFloorDue(freq_result, cfg) => base_rgb = freq_result.rgb

\* the floor has raised a colour with a peak below the target, and each channel
\* that was above 0 has grown
C10_Witness ==
    /\ FloorApplied
    /\ cfg.apply_length_floor
    /\ Max3(freq_result.rgb) = 79
    /\ Min3(freq_result.rgb) = 1
    /\ \A i \in 1..3 : base_rgb[i] > freq_result.rgb[i]

\* the target as the documentation states it
StatedTarget(n) ==
    IF n <= 6 THEN 200
    ELSE IF n >= 30 THEN 80
    ELSE 200 - 5 * (n - 6)

\* the peak channel of 'rg' under the configuration
PeakOfRg(config) == Max3(BaseRgbOf(<<"r", "g">>, config))

NameChannels == {0, 1, 30, 42, 43, 51, 102, 153, 204, 255}
NameColours == {<<r, g, b>> : r \in NameChannels, g \in NameChannels, b \in NameChannels}

InitName ==
    /\ pc = "to_hex"
    /\ text = <<"a">>
    /\ text_trans = text
    /\ cfg = DEFAULT_CONFIG
    /\ freq_result = NoFreqResult
    /\ base_rgb = None
    /\ with_override = None
    /\ with_punct \in NameColours
    /\ hex_code = None
    /\ NothingLater

NextName ==
    \/ ToHex
    \/ LocalLookup
    \/ ResolveName

SpecName == InitName /\ [][NextName]_vars

NeutralNames == {<<"b", "l", "a", "c", "k">>, <<"w", "h", "i", "t", "e">>, <<"g", "r", "a", "y">>}
BandNames == {HUE_BANDS[n].name : n \in 1..Len(HUE_BANDS)}

\* C20: every colour that is not named black, white or gray gets the name of
\* one of the ten hue bands, never the default name
C20_HueBandCoverage ==
    (pc = "speak" /\ display_name \notin NeutralNames) => display_name \in BandNames

(* ------------------------------------------------------------------ *)
(* compute_color in every situation of the remote lookup              *)
(* ------------------------------------------------------------------ *)
RemoteTexts == {<<"a">>, Blau, <<"r", "r", "r", "r", "r", "r", "r", "r", "b">>}
RemoteConfigs == {c \in Configs : c.denominator = "visible" /\ c.apply_length_floor /\ c.punctuation_mods}

CallRemote == CallFrom(RemoteTexts, RemoteConfigs)
Lookup == RemoteLookupIn(Remotes)

NextRemote ==
    \/ CallRemote
    \/ DeriveFreq
    \/ LengthFloor
    \/ DeriveAnchor
    \/ BlendOverride
    \/ ApplyPunctuation
    \/ ToHex
    \/ Lookup
    \/ ResolveName
    \/ SpeakNothing
    \/ Return

SpecRemote == Init /\ [][NextRemote]_vars

\* compute_color has returned its result to the caller
HasReturned == pc = "done" /\ outcome = "returned"

\* C5: for a non-empty text the name of the result compute_color returns is a
\* non-empty string, in every situation of the remote lookup
C5_NameNonEmpty ==
    (HasReturned /\ Len(text) > 0) => Len(strip(result.name)) > 0

\* the remote lookup has failed or is not installed
LookupFailed == lookup.exc # ""

\* C6: when the remote lookup fails in any way, or is absent, compute_color
\* still returns, and the name of its result is the local heuristic name of
\* the final colour
C6_NameResolutionNeverRaises ==
    (pc = "done" /\ LookupFailed) =>
        /\ outcome = "returned"
        /\ result.name = approx_color_name(with_punct[1], with_punct[2], with_punct[3])

(* ------------------------------------------------------------------ *)
(* tts/tts_runner.py: TtsRunner, its callers and its worker threads,  *)
(* one step per access to the shared fields and to the queue.         *)
(* workers[k] holds the Queue, the Event and the Thread of the k-th   *)
(* ensure_started that got past its test; the fields of the runner    *)
(* hold such a k, or 0 for None.                                      *)
(* ------------------------------------------------------------------ *)
engine_vars == <<pc, text, cfg, text_trans, freq_result, base_rgb, with_override, with_punct,
                 hex_code, lookup, display_name, spoken, outcome, result, earlier>>

\* besides the Queue, the Event and the Thread, what has happened to them so
\* far: the calls of backend.warmup and the items the thread took after the
\* Event was set, and, for a runner under observation, the texts put into the
\* queue, those a get_nowait of enqueue removed, and those passed to
\* backend.speak
NewWorker ==
    [queue |-> << >>, stop |-> FALSE, at |-> "new", item |-> None,
     put |-> << >>, evicted |-> << >>, heard |-> << >>, warmups |-> 0, late |-> 0]

\* what backend.warmup does: returns, or raises one of these
WarmupOutcomes == {"", "RuntimeError", "OSError"}

RunnerOps == {"ensure_started", "enqueue", "shutdown"}

FirstStep(op) == IF op = "shutdown" THEN "test_stop" ELSE "test_thread"

\* the thread c moves to the position at of its method
Goes(c, at) == callers' = [callers EXCEPT ![c].at = at]

\* the method of the thread c ends with the exception exc
Raises(c, exc) == callers' = [callers EXCEPT ![c].at = "raised", ![c].exc = exc]

\* a thread calls a method of the runner
BeginCall(threads, ops, texts, limit) ==
    /\ \E c \in threads, op \in ops, t \in texts :
          /\ callers[c].op = ""
          /\ c = MainThread => pc = "idle"
          /\ callers' = [callers EXCEPT ![c] =
                 [op |-> op, at |-> FirstStep(op),
                  text |-> IF op = "enqueue" THEN t ELSE None, made |-> 0, exc |-> ""]]
    /\ calls < limit
    /\ calls' = calls + 1
    /\ UNCHANGED <<runner, workers, engine_vars, cli_vars>>

\* ensure_started: if self._thread is not None: return
TestThread(c) ==
    /\ callers[c].at = "test_thread"
    /\ IF runner._thread = 0 THEN Goes(c, "set_queue")
       ELSE IF callers[c].op = "enqueue" THEN Goes(c, "assert")
       ELSE Goes(c, "returned")
    /\ UNCHANGED <<runner, workers, engine_vars, cli_vars, calls>>

\* q, stop and t are made; self._queue = q
SetQueue(c) ==
    /\ callers[c].at = "set_queue"
    /\ Len(workers) < MaxWorkers
    /\ workers' = Append(workers, NewWorker)
    /\ runner' = [runner EXCEPT !._queue = Len(workers) + 1]
    /\ callers' = [callers EXCEPT ![c].at = "set_stop", ![c].made = Len(workers) + 1]
    /\ UNCHANGED <<engine_vars, cli_vars, calls>>

\* self._stop = stop
SetStop(c) ==
    /\ callers[c].at = "set_stop"
    /\ runner' = [runner EXCEPT !._stop = callers[c].made]
    /\ Goes(c, "start")
    /\ UNCHANGED <<workers, engine_vars, cli_vars, calls>>

\* t.start()
StartThread(c) ==
    /\ callers[c].at = "start"
    /\ workers' = [workers EXCEPT ![callers[c].made].at = "warmup"]
    /\ Goes(c, "set_thread")
    /\ UNCHANGED <<runner, engine_vars, cli_vars, calls>>

\* self._thread = t
SetThread(c) ==
    /\ callers[c].at = "set_thread"
    /\ runner' = [runner EXCEPT !._thread = callers[c].made]
    /\ IF callers[c].op = "enqueue" THEN Goes(c, "assert") ELSE Goes(c, "returned")
    /\ UNCHANGED <<workers, engine_vars, cli_vars, calls>>

\* enqueue: assert self._queue is not None
AssertQueue(c) ==
    /\ callers[c].at = "assert"
    /\ IF runner._queue = 0 THEN Raises(c, "AssertionError") ELSE Goes(c, "put")
    /\ UNCHANGED <<runner, workers, engine_vars, cli_vars, calls>>

\* the queue k after put_nowait(item) has returned
PutInto(k, item) ==
    workers' = [workers EXCEPT ![k].queue = put_nowait(workers[k].queue, MaxQueue, item).value,
                               ![k].put = IF runner.observed THEN Append(@, item) ELSE @]

IsFull(k, item) == put_nowait(workers[k].queue, MaxQueue, item).exc = "Full"

\* self._queue.put_nowait(text); Full is caught
Put(c) ==
    /\ callers[c].at = "put"
    /\ IF runner._queue = 0
       THEN Raises(c, "AttributeError") /\ UNCHANGED workers
       ELSE IF IsFull(runner._queue, callers[c].text)
       THEN Goes(c, "get") /\ UNCHANGED workers
       ELSE Goes(c, "returned") /\ PutInto(runner._queue, callers[c].text)
    /\ UNCHANGED <<runner, engine_vars, cli_vars, calls>>

\* _ = self._queue.get_nowait(); Empty is caught
GetOldest(c) ==
    /\ callers[c].at = "get"
    /\ IF runner._queue = 0
       THEN Raises(c, "AttributeError") /\ UNCHANGED workers
       ELSE /\ Goes(c, "put_again")
            /\ workers' = [workers EXCEPT
                   ![runner._queue].queue = IF Len(@) = 0 THEN @ ELSE Tail(@),
                   ![runner._queue].evicted =
                       IF Len(workers[runner._queue].queue) = 0 \/ ~runner.observed THEN @
                       ELSE Append(@, Head(workers[runner._queue].queue))]
    /\ UNCHANGED <<runner, engine_vars, cli_vars, calls>>

\* the second self._queue.put_nowait(text), outside any try
PutAgain(c) ==
    /\ callers[c].at = "put_again"
    /\ IF runner._queue = 0
       THEN Raises(c, "AttributeError") /\ UNCHANGED workers
       ELSE IF IsFull(runner._queue, callers[c].text)
       THEN Raises(c, "Full") /\ UNCHANGED workers
       ELSE Goes(c, "returned") /\ PutInto(runner._queue, callers[c].text)
    /\ UNCHANGED <<runner, engine_vars, cli_vars, calls>>

\* shutdown: if self._stop is not None
TestStop(c) ==
    /\ callers[c].at = "test_stop"
    /\ IF runner._stop = 0 THEN Goes(c, "test_join") ELSE Goes(c, "stop_set")
    /\ UNCHANGED <<runner, workers, engine_vars, cli_vars, calls>>

\* self._stop.set()
StopSet(c) ==
    /\ callers[c].at = "stop_set"
    /\ IF runner._stop = 0
       THEN Raises(c, "AttributeError") /\ UNCHANGED workers
       ELSE Goes(c, "test_join") /\ workers' = [workers EXCEPT ![runner._stop].stop = TRUE]
    /\ UNCHANGED <<runner, engine_vars, cli_vars, calls>>

\* if self._thread is not None
TestJoin(c) ==
    /\ callers[c].at = "test_join"
    /\ IF runner._thread = 0 THEN Goes(c, "clear") ELSE Goes(c, "join")
    /\ UNCHANGED <<runner, workers, engine_vars, cli_vars, calls>>

\* self._thread.join() without a timeout: it returns when the thread has ended
JoinUntilEnded(c) ==
    /\ callers[c].at = "join"
    /\ runner._thread # 0
    /\ workers[runner._thread].at = "dead"
    /\ Goes(c, "clear")
    /\ UNCHANGED <<runner, workers, engine_vars, cli_vars, calls>>

\* self._thread.join(timeout=0.5): the thread has ended or the time is up
Join(c) ==
    /\ callers[c].at = "join"
    /\ IF runner._thread = 0 THEN Raises(c, "AttributeError") ELSE Goes(c, "clear")
    /\ UNCHANGED <<runner, workers, engine_vars, cli_vars, calls>>

\* self._queue = None; self._thread = None; self._stop = None
ClearQueue(c) ==
    /\ callers[c].at = "clear"
    /\ runner' = [runner EXCEPT !._queue = 0]
    /\ Goes(c, "clear_thread")
    /\ UNCHANGED <<workers, engine_vars, cli_vars, calls>>

ClearThread(c) ==
    /\ callers[c].at = "clear_thread"
    /\ runner' = [runner EXCEPT !._thread = 0]
    /\ Goes(c, "clear_stop")
    /\ UNCHANGED <<workers, engine_vars, cli_vars, calls>>

ClearStop(c) ==
    /\ callers[c].at = "clear_stop"
    /\ runner' = [runner EXCEPT !._stop = 0]
    /\ Goes(c, "returned")
    /\ UNCHANGED <<workers, engine_vars, cli_vars, calls>>

\* the method has returned or raised; the thread is free for its next call
Leave(c) ==
    /\ callers[c].at \in {"returned", "raised"}
    /\ c = MainThread => pc = "idle"
    /\ callers' = [callers EXCEPT ![c] = IdleCaller]
    /\ UNCHANGED <<runner, workers, engine_vars, cli_vars, calls>>

\* _loop: self.backend.warmup(); RuntimeError is caught, anything else ends the thread
Warmup(k) ==
    /\ workers[k].at = "warmup"
    /\ \E exc \in WarmupOutcomes :
          workers' = [workers EXCEPT ![k].at =
                         IF exc \in {"", "RuntimeError"} THEN "loop" ELSE "dead",
                                     ![k].warmups = @ + 1]
    /\ UNCHANGED <<runner, callers, engine_vars, cli_vars, calls>>

\* while True: the loop without the test of the stop flag
LoopOn(k) ==
    /\ workers[k].at = "loop"
    /\ workers' = [workers EXCEPT ![k].at = "get"]
    /\ UNCHANGED <<runner, callers, engine_vars, cli_vars, calls>>

\* while not stop.is_set()
TestLoop(k) ==
    /\ workers[k].at = "loop"
    /\ workers' = [workers EXCEPT ![k].at = IF workers[k].stop THEN "dead" ELSE "get"]
    /\ UNCHANGED <<runner, callers, engine_vars, cli_vars, calls>>

\* text = q.get(timeout=0.1), or Empty and continue
GetText(k) ==
    /\ workers[k].at = "get"
    /\ workers' = [workers EXCEPT ![k] =
           IF Len(workers[k].queue) = 0 THEN [workers[k] EXCEPT !.at = "loop"]
           ELSE [workers[k] EXCEPT !.at = "speak", !.item = Head(workers[k].queue),
                                   !.queue = Tail(workers[k].queue),
                                   !.late = IF workers[k].stop THEN @ + 1 ELSE @]]
    /\ UNCHANGED <<runner, callers, engine_vars, cli_vars, calls>>

\* self.backend.speak(text); RuntimeError is caught, anything else ends the thread
Speak(k) ==
    /\ workers[k].at = "speak"
    /\ \E exc \in SpeakOutcomes :
          workers' = [workers EXCEPT ![k].at =
                         IF exc \in {"", "RuntimeError"} THEN "loop" ELSE "dead",
                                     ![k].item = None,
                                     ![k].heard = IF runner.observed
                                                  THEN Append(@, workers[k].item) ELSE @]
    /\ UNCHANGED <<runner, callers, engine_vars, cli_vars, calls>>

ensure_started(c) ==
    \/ TestThread(c)
    \/ SetQueue(c)
    \/ SetStop(c)
    \/ StartThread(c)
    \/ SetThread(c)

enqueue(c) ==
    \/ AssertQueue(c)
    \/ Put(c)
    \/ GetOldest(c)
    \/ PutAgain(c)

shutdown(c) ==
    \/ TestStop(c)
    \/ StopSet(c)
    \/ TestJoin(c)
    \/ Join(c)
    \/ ClearQueue(c)
    \/ ClearThread(c)
    \/ ClearStop(c)

_loop(k) ==
    \/ Warmup(k)
    \/ TestLoop(k)
    \/ GetText(k)
    \/ Speak(k)

RunnerTexts == {<<"a">>, <<"b">>}

CallRunner == BeginCall(Callers, RunnerOps, RunnerTexts, MaxCalls)

NextRunner ==
    \/ CallRunner
    \/ \E c \in Callers : ensure_started(c) \/ enqueue(c) \/ shutdown(c) \/ Leave(c)
    \/ \E k \in 1..Len(workers) : _loop(k)

SpecRunner == Init /\ [][NextRunner]_vars

\* the thread of workers[k] has been started and has not ended
Alive(k) == workers[k].at \notin {"new", "dead"}


\* producers only: threads that call enqueue, and the workers
CallEnqueue == BeginCall(Callers, {"enqueue"}, RunnerTexts, MaxCalls)

NextProducers ==
    \/ CallEnqueue
    \/ \E c \in Callers : ensure_started(c) \/ enqueue(c) \/ Leave(c)
    \/ \E k \in 1..Len(workers) : _loop(k)

SpecProducers == Init /\ [][NextProducers]_vars

\* C17: under every interleaving of producers that call enqueue and of the
\* worker, no enqueue call raises: each one returns, having put its text into
\* the queue, after removing the oldest item when the queue was full
C17_DropOldestEnqueue ==
    \A c \in Callers : callers[c].op = "enqueue" => callers[c].at # "raised"

\* C18: under every interleaving of ensure_started, enqueue and shutdown calls
\* at most one worker thread of the runner is alive, and so at most one
\* backend.speak call is in progress
C18_SingleWorker ==
    /\ Cardinality({k \in 1..Len(workers) : Alive(k)}) <= 1
    /\ Cardinality({k \in 1..Len(workers) : workers[k].at = "speak"}) <= 1

(* ------------------------------------------------------------------ *)
(* The engine as its caller sees it: compute_color with speech off,   *)
(* blocking and through the runner, prepare_engine, and the methods   *)
(* of the runner, called one after the other by the main thread while *)
(* the workers run                                                    *)
(* ------------------------------------------------------------------ *)
EngineTexts == {<<"a">>, Blau}

\* speech off, blocking speech, speech through the runner
EngineSpeech ==
    {s \in SpeechSettings : /\ s.speak_locale = "de-DE"
                            /\ ~s.speak_include_hex
                            /\ s.tts_backend = s.speak_enabled
                            /\ s.tts_runner = s.tts_async
                            /\ s.tts_async => s.speak_enabled}

EngineConfigs ==
    {ComputeConfig([mode |-> "freq", denominator |-> "visible", apply_length_floor |-> TRUE,
                    punctuation_mods |-> TRUE], s) : s \in EngineSpeech}

CallEngine == CallFrom(EngineTexts, EngineConfigs)

\* _maybe_speak with a runner: cfg.tts_runner.enqueue(sentence) is entered
SpeakAsync ==
    /\ pc = "speak"
    /\ cfg.speak_enabled /\ cfg.tts_backend
    /\ cfg.tts_async /\ cfg.tts_runner
    /\ calls < MaxEngineCalls
    /\ calls' = calls + 1
    /\ callers' = [callers EXCEPT ![MainThread] =
           [op |-> "enqueue", at |-> FirstStep("enqueue"), text |-> Sentence,
            made |-> 0, exc |-> ""]]
    /\ pc' = "enqueue"
    /\ UNCHANGED <<text, cfg, text_trans, freq_result, base_rgb, with_override, with_punct,
                   hex_code, lookup, display_name, spoken, outcome, result, earlier>>
    /\ UNCHANGED <<runner, workers, cli_vars>>

\* enqueue has returned or raised: _maybe_speak ends
SpokeAsync ==
    /\ pc = "enqueue"
    /\ callers[MainThread].at \in {"returned", "raised"}
    /\ Finish("enqueue", callers[MainThread].exc, callers[MainThread].text)
    /\ callers' = [callers EXCEPT ![MainThread] = IdleCaller]
    /\ UNCHANGED <<text, cfg, text_trans, freq_result, base_rgb, with_override, with_punct,
                   hex_code, lookup, display_name, result, earlier>>
    /\ UNCHANGED <<runner, workers, calls, cli_vars>>

\* prepare_engine(config): nothing, ensure_started of the runner, or
\* backend.warmup, whose exception, if not a RuntimeError, goes to the caller
prepare_engine(configs) ==
    /\ pc = "idle"
    /\ callers[MainThread].op = ""
    /\ \E config \in configs :
          IF config.speak_enabled /\ config.tts_async /\ config.tts_runner
          THEN /\ calls < MaxEngineCalls
               /\ calls' = calls + 1
               /\ callers' = [callers EXCEPT ![MainThread] =
                      [op |-> "ensure_started", at |-> FirstStep("ensure_started"),
                       text |-> None, made |-> 0, exc |-> ""]]
          ELSE UNCHANGED <<callers, calls>>
    /\ UNCHANGED <<runner, workers, engine_vars, cli_vars>>

PrepareEngine == prepare_engine(EngineConfigs)

\* the main thread calls a method of the runner
CallRunnerAlone == BeginCall({MainThread}, RunnerOps, {<<"a">>}, MaxEngineCalls)

\* the caller keeps a result to compare later ones with, and notes how many
\* calls of the runner there were
Keep ==
    /\ pc = "done"
    /\ outcome = "returned"
    /\ earlier = NoCall
    /\ earlier' = [text |-> text, cfg |-> cfg, result |-> result, calls |-> calls]
    /\ UNCHANGED <<pc, text, cfg, text_trans, freq_result, base_rgb, with_override, with_punct,
                   hex_code, lookup, display_name, spoken, outcome, result>>
    /\ UNCHANGED <<runner_vars, cli_vars>>

NextEngine ==
    \/ CallEngine
    \/ DeriveFreq
    \/ LengthFloor
    \/ BlendOverride
    \/ ApplyPunctuation
    \/ ToHex
    \/ LocalLookup
    \/ ResolveName
    \/ SpeakNothing
    \/ SpeakBlocking
    \/ SpeakAsync
    \/ SpokeAsync
    \/ Keep
    \/ Return
    \/ PrepareEngine
    \/ CallRunnerAlone
    \/ ensure_started(MainThread) \/ enqueue(MainThread) \/ shutdown(MainThread)
    \/ Leave(MainThread)
    \/ \E k \in 1..Len(workers) : _loop(k)

SpecEngine == Init /\ [][NextEngine]_vars


\* C4: with the remote lookup not installed, a compute_color call with the
\* text and the configuration of an earlier call returns the identical result,
\* whatever compute_color, prepare_engine, enqueue and shutdown calls there
\* were before and in between
C4_Determinism ==
    (HasReturned /\ earlier.text = text /\ earlier.cfg = cfg) => result = earlier.result

\* a call has returned the result of an earlier call with the same text and
\* configuration, after the runner was called and a worker started in between
C4_Witness ==
    /\ HasReturned
    /\ earlier.text = text
    /\ earlier.cfg = cfg
    /\ earlier.calls < calls
    /\ Len(workers) > 0
    /\ result = earlier.result
    /\ result.rgb # None

\* the configuration with the speech fields at their defaults
Quiet(config) == [k \in DOMAIN config |-> IF k \in DOMAIN SpeechOff THEN SpeechOff[k] ELSE config[k]]

HexOf(rgb) == rgb_to_hex(rgb[1], rgb[2], rgb[3])

\* the result of compute_color when the remote lookup is not installed
LocalResult(rgb) ==
    [rgb |-> rgb, hex |-> HexOf(rgb), name |-> approx_color_name(rgb[1], rgb[2], rgb[3])]

\* C7: with speaking enabled, however backend.speak or the enqueue of the
\* runner ends, compute_color returns, and returns the result of the same call
\* with speaking disabled
C7_SpeechNeverAffects ==
    (pc = "done" /\ cfg.speak_enabled) =>
        /\ outcome = "returned"
        /\ result = LocalResult(RgbOf(text, Quiet(cfg)))

(* ------------------------------------------------------------------ *)
(* ui/cli.py: main on a command line. argv holds what the user gave:  *)
(* the text, the value of --denom and of --mode ("" when the option   *)
(* is left out), and whether --no-punct and --no-floor are there.     *)
(* ------------------------------------------------------------------ *)
denominator_choices == {"visible", "letters", "rgb_hits"}
mode_choices == {"freq", "anchor"}

CliTexts == {<<"a", "?">>, <<"r", "-", "-">>, Blau}

CommandLines ==
    [text : CliTexts, denom : denominator_choices \cup {"", "words"},
     mode : mode_choices \cup {"", "hue"}, no_punct : BOOLEAN, no_floor : BOOLEAN]

InitCli ==
    /\ pc = "parse_args"
    /\ argv \in CommandLines
    /\ args = NoArgs
    /\ text = None
    /\ cfg = NoConfig
    /\ text_trans = None
    /\ freq_result = NoFreqResult
    /\ base_rgb = None
    /\ with_override = None
    /\ with_punct = None
    /\ hex_code = None
    /\ lookup = NoLookup
    /\ display_name = None
    /\ spoken = NotSpoken
    /\ outcome = ""
    /\ result = NoResult
    /\ earlier = NoCall
    /\ runner = NoRunner
    /\ workers = << >>
    /\ callers = NoCallers
    /\ calls = 0

\* parser.parse_args(): a value outside the choices ends the program; an
\* option left out gets its default
parse_args ==
    /\ pc = "parse_args"
    /\ IF argv.denom \notin denominator_choices \cup {""} \/ argv.mode \notin mode_choices \cup {""}
       THEN /\ pc' = "exit"
            /\ outcome' = "SystemExit"
            /\ UNCHANGED args
       ELSE /\ pc' = "config"
            /\ outcome' = outcome
            /\ args' = [text |-> argv.text,
                        denom |-> IF argv.denom = "" THEN DEFAULT_CONFIG.denominator ELSE argv.denom,
                        no_punct |-> argv.no_punct,
                        no_floor |-> argv.no_floor,
                        mode |-> IF argv.mode = "" THEN "freq" ELSE argv.mode]
    /\ UNCHANGED <<text, cfg, text_trans, freq_result, base_rgb, with_override, with_punct,
                   hex_code, lookup, display_name, spoken, result, earlier, argv>>
    /\ UNCHANGED runner_vars

\* config = ComputeConfig(speak_enabled=bool(getattr(args, "speak", True)),
\*                        tts_backend=GttsSynthesizer())
MainConfig ==
    [DEFAULT_CONFIG EXCEPT !.speak_enabled = TRUE, !.tts_backend = TRUE]

BuildConfig ==
    /\ pc = "config"
    /\ cfg' = MainConfig
    /\ pc' = "prepare"
    /\ UNCHANGED <<text, text_trans, freq_result, base_rgb, with_override, with_punct,
                   hex_code, lookup, display_name, spoken, outcome, result, earlier>>
    /\ UNCHANGED <<runner_vars, cli_vars>>

\* prepare_engine(config): backend.warmup(), a RuntimeError is caught
PrepareMain ==
    /\ pc = "prepare"
    /\ \E exc \in WarmupOutcomes :
          IF exc \in {"", "RuntimeError"}
          THEN pc' = "idle" /\ outcome' = outcome
          ELSE pc' = "exit" /\ outcome' = "raised"
    /\ UNCHANGED <<text, cfg, text_trans, freq_result, base_rgb, with_override, with_punct,
                   hex_code, lookup, display_name, spoken, result, earlier>>
    /\ UNCHANGED <<runner_vars, cli_vars>>

\* result = compute_color(args.text, config)
CallMain ==
    /\ args # NoArgs
    /\ CallFrom({args.text}, {cfg})

\* print(output), or the exception of compute_color ends the program
PrintResult ==
    /\ pc = "done"
    /\ pc' = "exit"
    /\ UNCHANGED <<text, cfg, text_trans, freq_result, base_rgb, with_override, with_punct,
                   hex_code, lookup, display_name, spoken, outcome, result, earlier>>
    /\ UNCHANGED <<runner_vars, cli_vars>>

\* the mode of MainConfig is always freq: the anchor branch is never taken
NextCli ==
    \/ parse_args
    \/ BuildConfig
    \/ PrepareMain
    \/ CallMain
    \/ DeriveFreq
    \/ LengthFloor
    \/ BlendOverride
    \/ ApplyPunctuation
    \/ ToHex
    \/ LocalLookup
    \/ ResolveName
    \/ SpeakBlocking
    \/ PrintResult

SpecCli == InitCli /\ [][NextCli]_vars

\* the configuration the options of the command line select
Selected(given) ==
    [DEFAULT_CONFIG EXCEPT !.denominator = given.denom,
                           !.mode = given.mode,
                           !.punctuation_mods = ~given.no_punct,
                           !.apply_length_floor = ~given.no_floor]

\* C19: the ComputeConfig main passes to compute_color has the denominator of
\* --denom, the mode of --mode, punctuation modulation off under --no-punct and
\* the length floor off under --no-floor, and the colour printed is the one of
\* the text under the options selected
C19_FlagsSelectConfig ==
    /\ text # None =>
          /\ cfg.denominator = args.denom
          /\ cfg.mode = args.mode
          /\ cfg.punctuation_mods = ~args.no_punct
          /\ cfg.apply_length_floor = ~args.no_floor
    /\ (pc = "exit" /\ outcome = "returned") => result.rgb = RgbOf(args.text, Selected(args))


\* C21: in frequency mode with the length floor on, the floor target is the
\* one of the visible length of the text, under every denominator
C21_FloorTargetFromVisibleLength ==
    (pc = "blend" /\ cfg.mode = "freq" /\ cfg.apply_length_floor) =>
        _length_floor_target(freq_result.base_count)
            = _length_floor_target(visible_len(text_trans))

(* ------------------------------------------------------------------ *)
(* _compute_rgb_anchor on its own, on short texts of letters, of      *)
(* other characters, and of the two characters that are no ASCII      *)
(* letters but have a lower case in a..z. These two occur in no other *)
(* text of this module.                                               *)
(* ------------------------------------------------------------------ *)
AnchorChars == Range(LowerCase) \cup {"W", "B", "-", " ", "u_uml", "kelvin", "I_dot"}

AnchorTexts == {<<c>> : c \in AnchorChars} \cup {<<c, d>> : c \in AnchorChars, d \in AnchorChars}

AnchorConfig == [DEFAULT_CONFIG EXCEPT !.mode = "anchor", !.punctuation_mods = FALSE]

InitAnchor ==
    /\ pc = "derive"
    /\ text \in AnchorTexts
    /\ text_trans = transliterate_de(text)
    /\ cfg = AnchorConfig
    /\ freq_result = NoFreqResult
    /\ base_rgb = None
    /\ with_override = None
    /\ with_punct = None
    /\ hex_code = None
    /\ NothingLater

NextAnchor == DeriveAnchor

SpecAnchor == InitAnchor /\ [][NextAnchor]_vars

\* counts["R"] + counts["G"] + counts["B"]
AnchorSum(counts) == FAdd(FAdd(counts.R, counts.G), counts.B)

\* the one letter gives each nearest anchor the same share and the others nothing
SharedEqually(letter, counts) ==
    \A key \in {"R", "G", "B"} :
        FCmp(counts[key],
             IF key \in _nearest_anchor_keys(_letter_index(letter))
             THEN FDivInt(FInt(1), Cardinality(_nearest_anchor_keys(_letter_index(letter))))
             ELSE FInt(0)) = 0

\* C22: in anchor mode every ASCII letter gives one point in all, shared
\* equally among its nearest anchors, so that the three sums add up to the
\* number of ASCII letters of the transliterated text; w gives 0.5 to R and to
\* B, and a text of only w has the colour (255, 0, 255)
C22_AnchorTieSplit ==
    pc # "derive" =>
        /\ pc = "blend"
        /\ \A i \in 1..Len(text_trans) :
              IsAsciiLetter(text_trans[i]) =>
                  SharedEqually(text_trans[i], AnchorCounts(text_trans, i, i))
        /\ FCmp(AnchorSum(AnchorCounts(text_trans, 1, Len(text_trans))),
                FInt(Len(letters_only(text_trans)))) = 0
        /\ (\A i \in 1..Len(text_trans) : text_trans[i] = "w") => base_rgb = <<255, 0, 255>>

(* ------------------------------------------------------------------ *)
(* The override stated over the words of the text                     *)
(* ------------------------------------------------------------------ *)
\* a word of the text starts at position i
WordStartAt(trans, i) == IsWordAt(trans, i) /\ ~IsWordAt(trans, i - 1)

\* every pair of a stem and a word of the text that starts with it
StatedMatches(trans) ==
    {m \in (1..Len(OVERRIDE_COLOR_STEMS)) \X (1..Len(trans)) :
        /\ WordStartAt(trans, m[2])
        /\ StartsWithAt(trans, OVERRIDE_COLOR_STEMS[m[1]].stem, m[2])}

\* the weight, in hundredths, of the suffix that follows position j - 1
StatedHundredths(trans, j) ==
    IF \E k \in 2..Len(SuffixStrength) : StartsWithAt(trans, SuffixStrength[k].suffix, j)
    THEN SuffixStrength[CHOOSE k \in 2..Len(SuffixStrength) :
             StartsWithAt(trans, SuffixStrength[k].suffix, j)].hundredths
    ELSE SuffixStrength[1].hundredths

\* the sum of value[m] over the matches m
RECURSIVE TotalOf(_, _)
TotalOf(value, matches) ==
    IF matches = {} THEN 0
    ELSE LET m == CHOOSE x \in matches : TRUE
         IN  value[m] + TotalOf(value, matches \ {m})

RedOf(m) == OVERRIDE_COLOR_RGB(OVERRIDE_COLOR_STEMS[m[1]].key)[1]
GreenOf(m) == OVERRIDE_COLOR_RGB(OVERRIDE_COLOR_STEMS[m[1]].key)[2]
BlueOf(m) == OVERRIDE_COLOR_RGB(OVERRIDE_COLOR_STEMS[m[1]].key)[3]
HundredthsOf(trans, m) ==
    StatedHundredths(trans, m[2] + Len(OVERRIDE_COLOR_STEMS[m[1]].stem))

\* total / count rounded to the nearest integer, a half to the even one
RoundedMean(total, count) ==
    IF 2 * (total % count) < count THEN total \div count
    ELSE IF 2 * (total % count) > count THEN (total \div count) + 1
    ELSE (total \div count) + ((total \div count) % 2)

\* weight is the mean of the hundredths, up to the rounding of the floats
IsMeanWeight(weight, total, count) ==
    /\ FLt(FSub(weight, FDivInt(FInt(total), 100 * count)), Literal(1, 10000))
    /\ FGt(FSub(weight, FDivInt(FInt(total), 100 * count)), FNeg(Literal(1, 10000)))

AveragesMatches(found, trans, matches) ==
    /\ found.found <=> matches # {}
    /\ found.found =>
          /\ found.match_count = Cardinality(matches)
          /\ found.rgb = <<RoundedMean(TotalOf([m \in matches |-> RedOf(m)], matches), Cardinality(matches)),
                           RoundedMean(TotalOf([m \in matches |-> GreenOf(m)], matches), Cardinality(matches)),
                           RoundedMean(TotalOf([m \in matches |-> BlueOf(m)], matches), Cardinality(matches))>>
          /\ IsMeanWeight(found.weight, TotalOf([m \in matches |-> HundredthsOf(trans, m)], matches),
                          Cardinality(matches))

\* C23: find_override_and_weight returns nothing when no stem matches, and else
\* the rounded mean of the colours and the mean of the weights over every
\* match: a word occurring twice counts twice, and two stems of one colour
\* matching the same word both count
C23_OverrideCountsEveryMatch ==
    pc = "punctuation" =>
        AveragesMatches(find_override_and_weight(text_trans), text_trans,
                        StatedMatches(text_trans))

\* silbern, matched by the stems silber and silbern, counted twice beside blau
C23_Witness ==
    /\ pc = "punctuation"
    /\ text_trans = <<"s", "i", "l", "b", "e", "r", "n", " ", "b", "l", "a", "u">>
    /\ find_override_and_weight(text_trans).match_count = 3
    /\ find_override_and_weight(text_trans).rgb = <<128, 128, 213>>
    /\ with_override # base_rgb

(* ------------------------------------------------------------------ *)
(* _apply_punctuation on its own, on texts of up to MaxMarks          *)
(* punctuation marks, letters and spaces                              *)
(* ------------------------------------------------------------------ *)
RECURSIVE MarkTexts(_)
MarkTexts(n) ==
    IF n = 0 THEN {<< >>}
    ELSE MarkTexts(n - 1) \cup {t \o <<c>> : t \in MarkTexts(n - 1), c \in {"!", "?", "a", " "}}

MarkedColours == {<<0, 0, 0>>, <<200, 100, 50>>, <<255, 255, 255>>}

InitPunct ==
    /\ pc = "punctuation"
    /\ text \in MarkTexts(MaxMarks)
    /\ text_trans = text
    /\ cfg = [DEFAULT_CONFIG EXCEPT !.apply_length_floor = FALSE]
    /\ freq_result = NoFreqResult
    /\ base_rgb = None
    /\ with_override \in MarkedColours
    /\ with_punct = None
    /\ hex_code = None
    /\ NothingLater

NextPunct == ApplyPunctuation

SpecPunct == InitPunct /\ [][NextPunct]_vars

\* the position of the last character of original that is no whitespace, or 0
LastVisible(original) ==
    IF \A i \in 1..Len(original) : original[i] \in Whitespace THEN 0
    ELSE CHOOSE i \in 1..Len(original) :
             original[i] \notin Whitespace /\ \A k \in (i + 1)..Len(original) : original[k] \in Whitespace

\* 2 * (number of !) - (number of ?), plus or minus 1 for the closing mark
StatedRawScore(original) ==
    2 * Cardinality({i \in 1..Len(original) : original[i] = "!"})
    - Cardinality({i \in 1..Len(original) : original[i] = "?"})
    + (IF LastVisible(original) = 0 THEN 0
       ELSE IF original[LastVisible(original)] = "!" THEN 1
       ELSE IF original[LastVisible(original)] = "?" THEN 0 - 1
       ELSE 0)

StatedScore(original) ==
    IF StatedRawScore(original) < 0 - 3 THEN 0 - 3
    ELSE IF StatedRawScore(original) > 3 THEN 3
    ELSE StatedRawScore(original)

WithinFloats(lo, value, hi) == FLe(lo, value) /\ FLe(value, hi)

ScoredAsStated(original, multipliers) ==
    /\ PunctuationScore(original) = StatedScore(original)
    /\ FCmp(multipliers[1], FAdd(FInt(1), FMul(Literal(15, 100), FInt(StatedScore(original))))) = 0
    /\ FCmp(multipliers[2], FAdd(FInt(1), FMul(Literal(10, 100), FInt(StatedScore(original))))) = 0
    /\ WithinFloats(Literal(55, 100), multipliers[1], Literal(145, 100))
    /\ WithinFloats(Literal(70, 100), multipliers[2], Literal(130, 100))

\* C24: the punctuation score of every original text is 2 * (number of !) -
\* (number of ?), plus 1 when the text without its trailing whitespace ends
\* with ! or minus 1 when it ends with ?, clamped to [-3, 3]; the brightness
\* multiplier 1 + 0.15 * score lies in [0.55, 1.45] and the saturation
\* multiplier 1 + 0.10 * score in [0.70, 1.30]
C24_PunctuationScore ==
    pc = "to_hex" =>
        /\ ScoredAsStated(text, _punctuation_multipliers(text))
        /\ with_punct = Modified(with_override, _punctuation_multipliers(text))

\* a text whose marks add up to less than -3 and one whose marks add up to
\* more than 3 have been through the stage
C24_Witness ==
    /\ pc = "to_hex"
    /\ StatedRawScore(text) < 0 - 3
    /\ PunctuationScore(text) = 0 - 3
    /\ with_punct # with_override

(* ------------------------------------------------------------------ *)
(* Anchor mode and the length floor                                   *)
(* ------------------------------------------------------------------ *)
WithFloor(config, floor) == [config EXCEPT !.apply_length_floor = floor]

AnchorReturned == pc = "done" /\ outcome = "returned" /\ cfg.mode = "anchor"

\* C25: in anchor mode compute_color returns the same result with
\* apply_length_floor true and with apply_length_floor false, for every text
\* and every setting of the other options
C25_AnchorIgnoresFloor ==
    AnchorReturned =>
        result = LocalResult(RgbOf(text, WithFloor(cfg, ~cfg.apply_length_floor)))

\* an anchor call with the floor on has returned a colour that the frequency
\* mode, where the floor acts, would not have returned
C25_Witness ==
    /\ AnchorReturned
    /\ cfg.apply_length_floor
    /\ result.rgb # RgbOf(text, [cfg EXCEPT !.mode = "freq"])
    /\ Max3(_compute_rgb_freq(text_trans, cfg.denominator).rgb)
           < _length_floor_target(_compute_rgb_freq(text_trans, cfg.denominator).base_count)

(* ------------------------------------------------------------------ *)
(* The distance cap of the remote name                                *)
(* ------------------------------------------------------------------ *)
LookupSucceeded == lookup.exc = ""

LocalName(rgb) == approx_color_name(rgb[1], rgb[2], rgb[3])

\* C26: when the remote lookup succeeds, the name of the result is the remote
\* display name when the reported distance is at most 20.0, the boundary
\* included, and the local heuristic name of the final rgb when it is above 20.0
C26_RemoteNameThreshold ==
    (HasReturned /\ LookupSucceeded) =>
        /\ FLe(lookup.value.distance, Literal(200, 10)) => result.name = lookup.value.display_name
        /\ FGt(lookup.value.distance, Literal(200, 10)) => result.name = LocalName(result.rgb)

\* a lookup that reported the distance 20.0 has given the result its name,
\* which is not the local one
C26_Witness ==
    /\ HasReturned
    /\ LookupSucceeded
    /\ FCmp(lookup.value.distance, Literal(200, 10)) = 0
    /\ result.name = lookup.value.display_name
    /\ result.name # LocalName(result.rgb)

\* a lookup that reported a distance above 20.0 has been set aside
C26_Above ==
    /\ HasReturned
    /\ LookupSucceeded
    /\ FGt(lookup.value.distance, Literal(200, 10))
    /\ lookup.value.display_name # LocalName(result.rgb)

(* ------------------------------------------------------------------ *)
(* One thread that owns the runner and calls its methods one after    *)
(* the other, and the workers. A method that has been entered goes    *)
(* on, since nothing in it waits longer than the timeout of join; a   *)
(* worker goes on, since the scheduler lets it run and the calls of   *)
(* the backend come to an end.                                        *)
(* ------------------------------------------------------------------ *)
CallOwner == BeginCall({MainThread}, RunnerOps, RunnerTexts, MaxCalls)

OwnerStep == ensure_started(MainThread) \/ enqueue(MainThread) \/ shutdown(MainThread)

WorkerStep(k) == k <= Len(workers) /\ _loop(k)

NextOwner ==
    \/ CallOwner
    \/ OwnerStep
    \/ Leave(MainThread)
    \/ \E k \in 1..Len(workers) : _loop(k)

SpecOwner ==
    /\ Init
    /\ [][NextOwner]_vars
    /\ WF_vars(OwnerStep)
    /\ \A k \in 1..MaxWorkers : WF_vars(WorkerStep(k))

InShutdown == callers[MainThread].op = "shutdown"

StopIsSet(k) == k <= Len(workers) /\ workers[k].stop

HasExited(k) == k <= Len(workers) /\ workers[k].at = "dead"

\* C27: shutdown always returns: it never raises, its next step never waits for
\* the worker, whatever the worker is doing, a speak call that has not
\* finished included, and it comes to its end; and once shutdown has set the
\* stop flag of a worker, that worker leaves its loop and exits
C27_ShutdownReturns ==
    /\ [](InShutdown => /\ callers[MainThread].at # "raised"
                        /\ ENABLED (shutdown(MainThread) \/ Leave(MainThread)))
    /\ InShutdown ~> (InShutdown /\ callers[MainThread].at = "returned")
    /\ \A k \in 1..MaxWorkers : StopIsSet(k) ~> HasExited(k)

\* shutdown has returned while the worker it stopped is inside a speak call
C27_Witness ==
    /\ InShutdown
    /\ callers[MainThread].at = "returned"
    /\ \E k \in 1..Len(workers) : workers[k].stop /\ workers[k].at = "speak"

(* ------------------------------------------------------------------ *)
(* The worker and the failures of the backend                         *)
(* ------------------------------------------------------------------ *)
\* backend.warmup has been called once, and before the first q.get
WarmedUpOnce(worker) ==
    /\ worker.warmups = IF worker.at \in {"new", "warmup"} THEN 0 ELSE 1
    /\ worker.at \in {"get", "speak"} => worker.warmups = 1

\* C28: the worker calls backend.warmup exactly once, before its first dequeue;
\* a failing warmup and a failing speak are swallowed and do not end the
\* worker, which ends only when its stop flag is set, so that the items
\* enqueued afterwards are still dequeued and passed to backend.speak
C28_WorkerResilience ==
    \A k \in 1..Len(workers) :
        /\ WarmedUpOnce(workers[k])
        /\ workers[k].at = "dead" => workers[k].stop

(* ------------------------------------------------------------------ *)
(* A single producer and the worker, no shutdown: the n-th call of    *)
(* enqueue brings the n-th text of a list of distinct texts, and the  *)
(* runner is under observation                                        *)
(* ------------------------------------------------------------------ *)
NthText(n) == <<LowerCase[n]>>

InitFifo ==
    /\ pc = "idle"
    /\ text = None
    /\ cfg = NoConfig
    /\ text_trans = None
    /\ freq_result = NoFreqResult
    /\ base_rgb = None
    /\ with_override = None
    /\ with_punct = None
    /\ hex_code = None
    /\ lookup = NoLookup
    /\ display_name = None
    /\ spoken = NotSpoken
    /\ outcome = ""
    /\ result = NoResult
    /\ earlier = NoCall
    /\ runner = [NoRunner EXCEPT !.observed = TRUE]
    /\ workers = << >>
    /\ callers = NoCallers
    /\ calls = 0
    /\ argv = None
    /\ args = NoArgs

CallFifo == BeginCall({MainThread}, {"enqueue"}, {NthText(calls + 1)}, MaxCalls)

ProducerStep == ensure_started(MainThread) \/ enqueue(MainThread)

NextFifo ==
    \/ CallFifo
    \/ ProducerStep
    \/ Leave(MainThread)
    \/ \E k \in 1..Len(workers) : _loop(k)

SpecFifo ==
    /\ InitFifo
    /\ [][NextFifo]_vars
    /\ WF_vars(ProducerStep)
    /\ \A k \in 1..MaxWorkers : WF_vars(WorkerStep(k))

\* s can be had from t by leaving elements out
RECURSIVE IsSubsequence(_, _)
IsSubsequence(s, t) ==
    IF s = << >> THEN TRUE
    ELSE IF t = << >> THEN FALSE
    ELSE IF Head(s) = Head(t) THEN IsSubsequence(Tail(s), Tail(t))
    ELSE IsSubsequence(s, Tail(t))

NoRepeats(s) == \A i \in 1..Len(s) : \A j \in 1..Len(s) : s[i] = s[j] => i = j

InOrderAtMostOnce(worker) == IsSubsequence(worker.heard, worker.put) /\ NoRepeats(worker.heard)

WasPut(n) == \E k \in 1..Len(workers) : \E i \in 1..Len(workers[k].put) : workers[k].put[i] = NthText(n)

WasHeard(n) ==
    \E k \in 1..Len(workers) : \E i \in 1..Len(workers[k].heard) : workers[k].heard[i] = NthText(n)

WasEvicted(n) ==
    \E k \in 1..Len(workers) : \E i \in 1..Len(workers[k].evicted) : workers[k].evicted[i] = NthText(n)

\* C29: with a single producer and no shutdown, the texts the worker passes to
\* backend.speak are a subsequence of the enqueued texts, in their order and
\* none of them twice, and every enqueued text is spoken in the end unless the
\* drop-oldest rule evicted it from the full queue
C29_FifoAtMostOnce ==
    /\ [](\A k \in 1..Len(workers) : InOrderAtMostOnce(workers[k]))
    /\ \A n \in 1..MaxCalls : WasPut(n) ~> (WasHeard(n) \/ WasEvicted(n))

(* ------------------------------------------------------------------ *)
(* The worker after its stop flag has been set                        *)
(* ------------------------------------------------------------------ *)
\* the worker k takes no step that passes a text to backend.speak or takes one
\* from the queue
TakesNoMore(k) ==
    /\ workers'[k].late = workers[k].late
    /\ workers'[k].at \in {"loop", "dead"}
    /\ workers'[k].heard = workers[k].heard
    /\ workers'[k].item = None
    /\ workers'[k].item = None

\* C30: once shutdown has set the stop flag of a worker, that worker dequeues
\* at most one further item, the one of a get it had entered, and starts no
\* speak call after the one for that item: when it has come back to the test
\* of its loop it ends, and what is in its queue then, or is put there later,
\* is never taken
C30_CooperativeStop ==
    /\ [](\A k \in 1..Len(workers) : workers[k].late <= 1)
    /\ [][\A k \in 1..Len(workers) :
             (workers[k].stop /\ workers[k].at \in {"loop", "dead"}) => TakesNoMore(k)]_vars

\* a worker that was stopped inside its get has taken one more item and has
\* ended, leaving a text in its queue
C30_Witness ==
    \E k \in 1..Len(workers) :
        /\ workers[k].stop
        /\ workers[k].late = 1
        /\ workers[k].at = "dead"
        /\ Len(workers[k].queue) > 0
====
